---- MODULE Spec2Model ----
(***************************************************************************)
(* A model of the Maven repository server: the blob store                  *)
(* (storage/local.go), the snapshot retention engine and its controller    *)
(* (service/cleanup.go) and the resolution pipeline (handler/maven.go).    *)
(***************************************************************************)
EXTENDS Integers, Sequences, FiniteSets, TLC

VARIABLES
  fs,             \* the storage tree: path -> node (LocalStorage under BasePath)
  now,            \* the wall clock, in hours (time.Now)
  keepDays,       \* Config.SnapshotKeepDays
  keepLatestOnly, \* Config.SnapshotKeepLatestOnly
  cl,             \* per cleanup task: the locals of RunCleanup / cleanupDir
  enabled,        \* Config.SnapshotCleanupEnabled
  Paused,         \* SnapshotCleanupService.Paused
  Mu,             \* SnapshotCleanupService.Mu: "free" or the goroutine holding it
  CtxDone,        \* SnapshotCleanupService.Ctx is cancelled
  loop,           \* the ticker goroutine of Start: its position and its local paused
  admin,          \* the goroutine of an admin request: the call it is in
  quiet,          \* history: pause() has returned and resume() was not called since
  reply,          \* what the last Status() call returned
  proxies,        \* Config.ProxyURLs: what the mirror at each URL answers
  body,           \* the bytes of the artifact on the mirrors that hold it
  denied,         \* the paths on which os.ReadDir and os.RemoveAll fail
  req,            \* per GET request: the locals of the handler and the response
  save,           \* per GET request: the goroutine running Store.Save on the pipe
  pipe,           \* per GET request: the io.Pipe between the handler and Save
  put,            \* per PUT request: the locals of HandleUpload and of its Save
  head            \* the HEAD request: the locals of the handler and the response

cfgVars == <<keepDays, keepLatestOnly, enabled, proxies, body, denied>>

getVars == <<req, save, pipe>>

putVars == <<put, head>>

ctlVars == <<Paused, Mu, CtxDone, loop, admin, quiet, reply>>

(***************************************************************************)
(* Names.  A name is a TLA+ string; NameChars gives its characters, which  *)
(* is what the string functions and the regular expressions read.          *)
(* NameOrder lists the names in byte order, the order os.ReadDir returns.  *)
(***************************************************************************)
NameOrder ==
  << "1.0",
     "1.0-SNAPSHOT",
     "README",
     "a.jar",
     "app",
     "app-1.0-20231020.120000-1.jar",
     "app-1.0-20251220.120000-4-sources.jar",
     "app-1.0-20251220.120000-4.jar",
     "app-1.0-SNAPSHOT.pom",
     "app-1.0.jar",
     "com",
     "dev",
     "lib-SNAPSHOT",
     "maven-metadata.xml",
     "maven-public",
     "maven-releases",
     "public",
     "repository",
     "sub" >>

NameChars ==
  ("1.0" :> <<"1",".","0">>)
  @@ ("1.0-SNAPSHOT" :> <<"1",".","0","-","S","N","A","P","S","H","O","T">>)
  @@ ("README" :> <<"R","E","A","D","M","E">>)
  @@ ("a.jar" :> <<"a",".","j","a","r">>)
  @@ ("app" :> <<"a","p","p">>)
  @@ ("app-1.0-20231020.120000-1.jar" :> <<"a","p","p","-","1",".","0","-","2","0","2","3","1","0","2","0",".","1","2","0","0","0","0","-","1",".","j","a","r">>)
  @@ ("app-1.0-20251220.120000-4-sources.jar" :> <<"a","p","p","-","1",".","0","-","2","0","2","5","1","2","2","0",".","1","2","0","0","0","0","-","4","-","s","o","u","r","c","e","s",".","j","a","r">>)
  @@ ("app-1.0-20251220.120000-4.jar" :> <<"a","p","p","-","1",".","0","-","2","0","2","5","1","2","2","0",".","1","2","0","0","0","0","-","4",".","j","a","r">>)
  @@ ("app-1.0-SNAPSHOT.pom" :> <<"a","p","p","-","1",".","0","-","S","N","A","P","S","H","O","T",".","p","o","m">>)
  @@ ("app-1.0.jar" :> <<"a","p","p","-","1",".","0",".","j","a","r">>)
  @@ ("com" :> <<"c","o","m">>)
  @@ ("dev" :> <<"d","e","v">>)
  @@ ("lib-SNAPSHOT" :> <<"l","i","b","-","S","N","A","P","S","H","O","T">>)
  @@ ("maven-metadata.xml" :> <<"m","a","v","e","n","-","m","e","t","a","d","a","t","a",".","x","m","l">>)
  @@ ("maven-public" :> <<"m","a","v","e","n","-","p","u","b","l","i","c">>)
  @@ ("maven-releases" :> <<"m","a","v","e","n","-","r","e","l","e","a","s","e","s">>)
  @@ ("public" :> <<"p","u","b","l","i","c">>)
  @@ ("repository" :> <<"r","e","p","o","s","i","t","o","r","y">>)
  @@ ("sub" :> <<"s","u","b">>)

Names == DOMAIN NameChars

NameRank == [n \in Names |-> CHOOSE i \in 1..Len(NameOrder) : NameOrder[i] = n]

Digits == {"0", "1", "2", "3", "4", "5", "6", "7", "8", "9"}

\* strings.HasPrefix / strings.HasSuffix / strings.Index on characters
HasPrefix(s, pre) ==
  /\ Len(s) >= Len(pre)
  /\ SubSeq(s, 1, Len(pre)) = pre

HasSuffix(s, suf) ==
  /\ Len(s) >= Len(suf)
  /\ SubSeq(s, Len(s) - Len(suf) + 1, Len(s)) = suf

\* 0 when c does not occur (Go: -1), else the 1-based index of the first c
IndexOf(s, c) ==
  IF \E i \in 1..Len(s) : s[i] = c
  THEN CHOOSE i \in 1..Len(s) : s[i] = c /\ \A j \in 1..(i - 1) : s[j] # c
  ELSE 0

SnapshotSuffix == <<"-", "S", "N", "A", "P", "S", "H", "O", "T">>

MetadataPrefix == <<"m", "a", "v", "e", "n", "-", "m", "e", "t", "a", "d", "a", "t", "a">>

(***************************************************************************)
(* Paths.  A path is a sequence of names; <<>> is the storage base.        *)
(***************************************************************************)
SnapDir == <<"com", "app", "1.0-SNAPSHOT">>

LibDir == <<"com", "lib-SNAPSHOT">>

RelDir == <<"com", "app", "1.0">>

SubDir == SnapDir \o <<"sub">>

\* the files of SnapDir whose presence and mod time Init chooses
SnapFiles ==
  { "app-1.0-20231020.120000-1.jar",
    "app-1.0-20251220.120000-4.jar",
    "app-1.0-20251220.120000-4-sources.jar",
    "app-1.0-SNAPSHOT.pom" }

LibFiles == {"README", "a.jar"}

CleanupPaths ==
  { <<>>, <<"com">>, <<"com", "app">>, RelDir, SnapDir, SubDir, LibDir,
    RelDir \o <<"app-1.0.jar">>,
    RelDir \o <<"maven-metadata.xml">>,
    SubDir \o <<"app-1.0-20231020.120000-1.jar">>,
    SnapDir \o <<"maven-metadata.xml">> }
  \cup { SnapDir \o <<f>> : f \in SnapFiles }
  \cup { LibDir \o <<f>> : f \in LibFiles }

AllPaths == CleanupPaths

Parent(p) == SubSeq(p, 1, Len(p) - 1)

Leaf(p) == p[Len(p)]

IsUnder(p, q) == Len(q) >= Len(p) /\ SubSeq(q, 1, Len(p)) = p

\* filepath.Join / filepath.Rel: the path as a string; the base is "."
RECURSIVE PathChars(_)
PathChars(p) ==
  IF p = <<>> THEN <<".">>
  ELSE IF Len(p) = 1 THEN NameChars[p[1]]
  ELSE PathChars(Parent(p)) \o <<"/">> \o NameChars[Leaf(p)]

(***************************************************************************)
(* The blob store (storage/local.go).                                      *)
(***************************************************************************)
NoNode == [kind |-> "none", data |-> <<>>, mtime |-> 0]

DirNode == [kind |-> "dir", data |-> <<>>, mtime |-> 0]

FileNode(d, t) == [kind |-> "file", data |-> d, mtime |-> t]

Children(store, p) ==
  {q \in DOMAIN store : Len(q) = Len(p) + 1 /\ Parent(q) = p /\ store[q].kind # "none"}

\* a set of paths as the sequence os.ReadDir returns: sorted by file name
RECURSIVE SortByName(_)
SortByName(S) ==
  IF S = {} THEN <<>>
  ELSE LET first == CHOOSE q \in S : \A r \in S : NameRank[Leaf(q)] <= NameRank[Leaf(r)]
       IN  <<first>> \o SortByName(S \ {first})

Entry(store, q) ==
  [Name |-> Leaf(q), IsDir |-> store[q].kind = "dir",
   Size |-> Len(store[q].data), ModTime |-> store[q].mtime]

\* List: nil (the empty sequence) when the path is missing, is a file, or is
\* a directory without entries
List(store, p) ==
  IF p \in DOMAIN store /\ store[p].kind = "dir"
  THEN LET order == SortByName(Children(store, p))
       IN  [i \in 1..Len(order) |-> Entry(store, order[i])]
  ELSE <<>>

\* Delete: os.RemoveAll, the target and all its descendants
Delete(store, p) ==
  [q \in DOMAIN store |-> IF IsUnder(p, q) THEN NoNode ELSE store[q]]

\* Get: os.Open; a missing path is found=false without error, a path below a
\* regular file is an error (ENOTDIR is not os.IsNotExist)
Get(store, p) ==
  LET notDir == \E k \in 0..(Len(p) - 1) : store[SubSeq(p, 1, k)].kind = "file"
  IN  [found |-> ~notDir /\ store[p].kind # "none", err |-> notDir]

Prefixes(p) == {SubSeq(p, 1, k) : k \in 0..Len(p)}

\* os.MkdirAll(dir): fails when a component of dir is a regular file
MkdirAllOk(store, dir) == \A q \in Prefixes(dir) : store[q].kind # "file"

MkdirAll(store, dir) ==
  [q \in DOMAIN store |->
     IF q \in Prefixes(dir) /\ store[q].kind = "none" THEN DirNode ELSE store[q]]

\* os.Create(path): creates the file or truncates it; fails on a directory
CreateOk(store, p) == store[Parent(p)].kind = "dir" /\ store[p].kind # "dir"

\* os.OpenFile without O_TRUNC
Create_NoTruncate(store, p, t) ==
  [store EXCEPT ![p] = IF @.kind = "file" THEN @ ELSE FileNode(<<>>, t)]

Create(store, p, t) == [store EXCEPT ![p] = FileNode(<<>>, t)]

\* the bytes of a file after a write of chunk at offset off (holes read ".")
WriteAt(data, off, chunk) ==
  LET end == IF Len(data) > off + Len(chunk) THEN Len(data) ELSE off + Len(chunk)
  IN  [i \in 1..end |->
         IF i > off /\ i <= off + Len(chunk) THEN chunk[i - off]
         ELSE IF i <= Len(data) THEN data[i]
         ELSE "."]

\* Walk: every node under the base that exists, with its relative path
WalkNodes(store) == {q \in DOMAIN store : store[q].kind # "none"}

(***************************************************************************)
(* The snapshot parser (service/cleanup.go, extractVersion).               *)
(***************************************************************************)
AllDigits(s, i, j) == j <= Len(s) /\ \A k \in i..j : s[k] \in Digits

\* "-" \d{8} "." \d{6} "-" \d at position i: where group 2 of
\* uniqueSnapshotRegex can start after the hyphen at i
TimestampAt(s, i) ==
  /\ i + 17 <= Len(s)
  /\ s[i] = "-"
  /\ AllDigits(s, i + 1, i + 8)
  /\ s[i + 9] = "."
  /\ AllDigits(s, i + 10, i + 15)
  /\ s[i + 16] = "-"
  /\ s[i + 17] \in Digits

\* the end of the longest run of digits that starts at i (\d+ is greedy)
DigitRunEnd(s, i) ==
  CHOOSE j \in i..Len(s) :
    /\ AllDigits(s, i, j)
    /\ (j = Len(s) \/ s[j + 1] \notin Digits)

\* ^(.+)-(\d{8}\.\d{6}-\d+)(.*)$ : the hyphens where group 1 can end; the
\* greedy (.+) takes the last of them
UniqueSnapshotAt(s) == {i \in 2..Len(s) : TimestampAt(s, i)}

\* ^(.+)-(SNAPSHOT)(.*)$
NonUniqueSnapshotAt(s) ==
  {i \in 2..Len(s) : i + 8 <= Len(s) /\ SubSeq(s, i, i + 8) = SnapshotSuffix}

MaxOf(S) == CHOOSE x \in S : \A y \in S : y <= x

extractVersion(name) ==
  LET s == NameChars[name]
      dotIdx == IndexOf(s, ".")
  IN  IF UniqueSnapshotAt(s) # {}
      THEN LET i == MaxOf(UniqueSnapshotAt(s))
           IN  SubSeq(s, 1, DigitRunEnd(s, i + 17))
      ELSE IF NonUniqueSnapshotAt(s) # {}
      THEN SubSeq(s, 1, MaxOf(NonUniqueSnapshotAt(s)) + 8)
      ELSE IF dotIdx # 0
      THEN SubSeq(s, 1, dotIdx - 1)
      ELSE s

\* extractVersion and the maven-metadata test of every name, computed once
VersionOf == [n \in Names |-> extractVersion(n)]

MetadataName == [n \in Names |-> HasPrefix(NameChars[n], MetadataPrefix)]

(***************************************************************************)
(* The retention engine (service/cleanup.go, RunCleanup and cleanupDir).   *)
(***************************************************************************)
HoursPerDay == 24

\* Grouped without the maven-metadata test
Grouped_NoMetadataSkip(entries) ==
  {i \in 1..Len(entries) : ~entries[i].IsDir}

\* the entries cleanupDir groups: not sub-directories, not maven-metadata*
Grouped(entries) ==
  {i \in 1..Len(entries) :
     /\ ~entries[i].IsDir
     /\ ~MetadataName[entries[i].Name]}

\* the indices of a set in increasing order (append keeps the listing order)
RECURSIVE Ascending(_)
Ascending(S) ==
  IF S = {} THEN <<>>
  ELSE LET m == CHOOSE x \in S : \A y \in S : x <= y
       IN  <<m>> \o Ascending(S \ {m})

\* groups[version]: the fileInfo of every grouped entry with that version
GroupFiles(entries, version) ==
  LET idx == Ascending({i \in Grouped(entries) : VersionOf[entries[i].Name] = version})
  IN  [k \in 1..Len(idx) |-> [Name |-> entries[idx[k]].Name, ModTime |-> entries[idx[k]].ModTime]]

\* maxTime starts at the zero time and takes every later ModTime
MaxTimeOf(files) ==
  LET zero == -1
      times == {files[k].ModTime : k \in 1..Len(files)} \cup {zero}
  IN  MaxOf(times)

\* the versionInfo records built from the groups map
Versions(entries) ==
  { [Name |-> v, MaxTime |-> MaxTimeOf(GroupFiles(entries, v)), Files |-> GroupFiles(entries, v)] :
      v \in {VersionOf[entries[i].Name] : i \in Grouped(entries)} }

\* sort.Slice by MaxTime descending over a map iteration: every order in
\* which no version comes before a strictly newer one
RECURSIVE SortedVersions(_)
SortedVersions(V) ==
  IF V = {} THEN {<<>>}
  ELSE UNION { { <<v>> \o rest : rest \in SortedVersions(V \ {v}) } :
               v \in {w \in V : \A u \in V : u.MaxTime <= w.MaxTime} }

\* time.Duration(SnapshotKeepDays) * 24 * time.Hour, in hours
KeepDuration(days) == days * HoursPerDay

\* ShouldDelete with the keep-latest test off by one
ShouldDelete_OffByOne(i, v, t, days, latestOnly) ==
  \/ days > 0 /\ t - v.MaxTime > KeepDuration(days)
  \/ latestOnly /\ i > 1

\* ShouldDelete with the newest version exempt from the age rule
ShouldDelete_NewestExempt(i, v, t, days, latestOnly) ==
  \/ days > 0 /\ t - v.MaxTime > KeepDuration(days) /\ i > 0
  \/ latestOnly /\ i > 0

\* the decision of the loop body for the version at index i (0 = newest)
ShouldDelete(i, v, t, days, latestOnly) ==
  \/ days > 0 /\ t - v.MaxTime > KeepDuration(days)
  \/ latestOnly /\ i > 0

RECURSIVE Flatten(_)
Flatten(ss) == IF ss = <<>> THEN <<>> ELSE Head(ss) \o Flatten(Tail(ss))

\* the Store.Delete calls of cleanupDir, in order
DeletePlan(dir, versions, t, days, latestOnly) ==
  Flatten([i \in 1..Len(versions) |->
             IF ShouldDelete(i - 1, versions[i], t, days, latestOnly)
             THEN [k \in 1..Len(versions[i].Files) |-> dir \o <<versions[i].Files[k].Name>>]
             ELSE <<>>])

\* Walk's callback: directories whose path ends in -SNAPSHOT
SnapshotDirs(store) ==
  {p \in WalkNodes(store) : store[p].kind = "dir" /\ HasSuffix(PathChars(p), SnapshotSuffix)}

(***************************************************************************)
(* Bounds of the model.                                                    *)
(***************************************************************************)
\* the clock at the start, and the hour after which it no longer advances
StartHour == 48

MaxHour == 49

\* the mod times Init gives to files
ModTimes == {0, HoursPerDay, 2 * HoursPerDay}

\* the values of SnapshotKeepDays Init chooses from
KeepDaysChoices == {-1, 0, 1, 2}

(***************************************************************************)
(* Cleanup tasks: the ticker goroutine's RunCleanup and a RunCleanup       *)
(* called directly (the manual trigger's goroutine, or the test).          *)
(***************************************************************************)
Tasks == {"ticker", "manual"}

IdleTask(store) ==
  [pc |-> "idle", dirs |-> {}, dir |-> <<>>, entries |-> <<>>, at |-> 0,
   todo |-> <<>>, before |-> store,
   plan |-> <<>>,          \* history: the Store.Delete calls cleanupDir decided on
   tried |-> <<>>,         \* history: the Store.Delete calls it made
   found |-> {},           \* history: the snapshot directories Walk found
   listed |-> <<>>,        \* history: the directories cleanupDir was called on, in order
   paused |-> FALSE]       \* history: the paused flag when RunCleanup was called

\* RunCleanup is called
ClBegin(t) ==
  /\ cl[t].pc = "idle"
  /\ cl' = [cl EXCEPT ![t] = [IdleTask(fs) EXCEPT !.pc = "walk", !.paused = Paused]]
  /\ UNCHANGED <<fs, now, cfgVars, putVars, getVars, ctlVars>>

\* Store.Walk collects snapshotDirs
ClWalk(t) ==
  /\ cl[t].pc = "walk"
  /\ cl' = [cl EXCEPT ![t].pc = "dirs", ![t].dirs = SnapshotDirs(fs),
                       ![t].found = SnapshotDirs(fs)]
  /\ UNCHANGED <<fs, now, cfgVars, putVars, getVars, ctlVars>>

\* cleanupDir(dir) up to its delete loop: List, grouping, time.Now, sort;
\* when List fails cleanupDir returns the error and RunCleanup goes on
ClList(t) ==
  /\ cl[t].pc = "dirs"
  /\ \E d \in cl[t].dirs :
       LET entries == List(fs, d)
       IN  IF d \in denied
           THEN cl' = [cl EXCEPT ![t].dirs = cl[t].dirs \ {d},
                                 ![t].listed = Append(@, d)]
           ELSE
           \E versions \in SortedVersions(Versions(entries)) :
             cl' = [cl EXCEPT ![t].pc = "delete",
                              ![t].dirs = cl[t].dirs \ {d},
                              ![t].dir = d,
                              ![t].entries = entries,
                              ![t].at = now,
                              ![t].listed = Append(@, d),
                              ![t].tried = <<>>,
                              ![t].todo = DeletePlan(d, versions, now, keepDays, keepLatestOnly),
                              ![t].plan = DeletePlan(d, versions, now, keepDays, keepLatestOnly)]
  /\ UNCHANGED <<fs, now, cfgVars, putVars, getVars, ctlVars>>

\* ClDelete that leaves the loop when Store.Delete fails
ClDelete_AbortOnFailure(t) ==
  /\ cl[t].pc = "delete"
  /\ cl[t].todo # <<>>
  /\ fs' = IF Head(cl[t].todo) \in denied THEN fs ELSE Delete(fs, Head(cl[t].todo))
  /\ cl' = [cl EXCEPT ![t].todo = IF Head(cl[t].todo) \in denied THEN <<>> ELSE Tail(@),
                       ![t].tried = Append(@, Head(cl[t].todo))]
  /\ UNCHANGED <<now, cfgVars, putVars, getVars, ctlVars>>

\* one Store.Delete of the delete loop; a failure is logged and the loop
\* goes on
ClDelete(t) ==
  /\ cl[t].pc = "delete"
  /\ cl[t].todo # <<>>
  /\ fs' = IF Head(cl[t].todo) \in denied THEN fs ELSE Delete(fs, Head(cl[t].todo))
  /\ cl' = [cl EXCEPT ![t].todo = Tail(@),
                       ![t].tried = Append(@, Head(cl[t].todo))]
  /\ UNCHANGED <<now, cfgVars, putVars, getVars, ctlVars>>

\* cleanupDir returns
ClDirDone(t) ==
  /\ cl[t].pc = "delete"
  /\ cl[t].todo = <<>>
  /\ cl' = [cl EXCEPT ![t].pc = "dirs"]
  /\ UNCHANGED <<fs, now, cfgVars, putVars, getVars, ctlVars>>

\* RunCleanup returns
ClReturn(t) ==
  /\ cl[t].pc = "dirs"
  /\ cl[t].dirs = {}
  /\ cl' = [cl EXCEPT ![t].pc = "done"]
  /\ UNCHANGED <<fs, now, cfgVars, putVars, getVars, ctlVars>>

\* an hour passes
Tick ==
  /\ now < MaxHour
  /\ now' = now + 1
  /\ UNCHANGED <<fs, cl, cfgVars, putVars, getVars, ctlVars>>

vars == <<fs, now, cl, cfgVars, ctlVars, getVars, putVars>>

(***************************************************************************)
(* The retention controller (service/cleanup.go: Start, Stop, Pause,       *)
(* Resume) and the admin routes that call it (handler/maven.go).           *)
(***************************************************************************)
\* the controller as NewSnapshotCleanupService leaves it
CtlIdle ==
  /\ Paused = FALSE
  /\ Mu = "free"
  /\ CtxDone = FALSE
  /\ loop = [pc |-> "off", paused |-> FALSE,
             readQuiet |-> FALSE,  \* history: quiet at the read
             pending |-> FALSE,    \* ticker.C holds a tick (a channel of capacity 1)
             late |-> FALSE]       \* history: the tick handled last had been waiting in ticker.C
  /\ admin = "idle"
  /\ quiet = FALSE
  /\ reply = "none"

(***************************************************************************)
(* GET requests.  Each request runs the handler; a tee-cache fill adds a   *)
(* goroutine running Store.Save on the read end of an io.Pipe.             *)
(***************************************************************************)
MaxReq == 2

Reqs == 1..MaxReq

\* the locals of a handler invocation and what the client has received
IdleReq(store) ==
  [pc |-> "idle", kind |-> "direct", path |-> <<>>, file |-> <<>>,
   artifact |-> <<>>, cache |-> <<>>, i |-> 0, up |-> <<>>, off |-> 0,
   chunk |-> <<>>, eof |-> FALSE, err |-> FALSE, status |-> 0, ctype |-> "none",
   out |-> <<>>, listing |-> <<>>, copyErr |-> "none",
   source |-> "none",      \* history: where the response came from
   missed |-> FALSE,       \* history: the store reported the path missing
   mirrors |-> <<>>,       \* history: the mirrors contacted, in order
   repos |-> <<>>,         \* the hosted repositories of an aggregate request
   log |-> <<>>,           \* history: the probes and upstream requests, in order
   before |-> store]       \* history: the store at the start

NoSave == [pc |-> "none", path |-> <<>>, off |-> 0, buf |-> <<>>, ctype |-> "none"]

\* the pipe of a fill; closes counts the calls of pw.Close()
NoPipe == [data |-> <<>>, closed |-> FALSE, closes |-> 0]

MaxPut == 2

Puts == 1..MaxPut

\* the locals of a HandleUpload invocation
IdlePut ==
  [pc |-> "idle", path |-> <<>>, body |-> <<>>, off |-> 0, status |-> 0,
   began |-> FALSE,        \* history: cleanupDir of the directory was running at the start
   ended |-> FALSE,        \* history: and at the end
   after |-> {},           \* history: the PUT requests answered before the start
   getpc |-> "none"]       \* history: where GET request 1 was at the answer

\* the locals of a HandleHead / HandleAggregateHead invocation
IdleHead ==
  [pc |-> "idle", kind |-> "direct", path |-> <<>>, i |-> 0, err |-> FALSE,
   status |-> 0,
   source |-> "none",      \* history: where the answer came from
   missed |-> FALSE,       \* history: the store reported the path missing
   before |-> <<>>,        \* history: the store at the local probe
   asked |-> <<>>]         \* history: the paths asked from the mirrors, in order

GetIdle ==
  /\ req = [r \in Reqs |-> IdleReq(fs)]
  /\ save = [r \in Reqs |-> NoSave]
  /\ pipe = [r \in Reqs |-> NoPipe]
  /\ put = [u \in Puts |-> IdlePut]
  /\ head = IdleHead

\* Start: returns at once when cleanup is disabled, else launches the loop
Start ==
  /\ loop.pc = "off"
  /\ enabled
  /\ loop' = [loop EXCEPT !.pc = "select"]
  /\ UNCHANGED <<fs, now, cl, cfgVars, putVars, getVars, Paused, Mu, CtxDone, admin, quiet, reply>>

\* case <-ticker.C: then s.Mu.Lock()
LoopTick ==
  /\ loop.pc = "select"
  /\ loop' = [loop EXCEPT !.pc = "lock", !.pending = FALSE, !.late = loop.pending]
  /\ UNCHANGED <<fs, now, cl, cfgVars, putVars, getVars, Paused, Mu, CtxDone, admin, quiet, reply>>

LoopLock ==
  /\ loop.pc = "lock"
  /\ Mu = "free"
  /\ Mu' = "loop"
  /\ loop' = [loop EXCEPT !.pc = "locked"]
  /\ UNCHANGED <<fs, now, cl, cfgVars, putVars, getVars, Paused, CtxDone, admin, quiet, reply>>

\* paused := s.Paused; s.Mu.Unlock()
LoopRead ==
  /\ loop.pc = "locked"
  /\ Mu' = "free"
  /\ loop' = [loop EXCEPT !.pc = "check", !.paused = Paused, !.readQuiet = quiet]
  /\ UNCHANGED <<fs, now, cl, cfgVars, putVars, getVars, Paused, CtxDone, admin, quiet, reply>>

\* LoopCheck without the test of paused
LoopCheck_IgnorePaused ==
  /\ loop.pc = "check"
  /\ loop' = [loop EXCEPT !.pc = "cleanup"]
  /\ cl' = [cl EXCEPT !["ticker"] = [IdleTask(fs) EXCEPT !.pc = "walk"]]
  /\ UNCHANGED <<fs, now, cfgVars, putVars, getVars, Paused, Mu, CtxDone, admin, quiet, reply>>

\* if !paused { s.RunCleanup() ... }: the call, or the skip
LoopCheck ==
  /\ loop.pc = "check"
  /\ IF ~loop.paused
     THEN /\ loop' = [loop EXCEPT !.pc = "cleanup"]
          /\ cl' = [cl EXCEPT !["ticker"] = [IdleTask(fs) EXCEPT !.pc = "walk"]]
     ELSE /\ loop' = [loop EXCEPT !.pc = "select"]
          /\ UNCHANGED cl
  /\ UNCHANGED <<fs, now, cfgVars, putVars, getVars, Paused, Mu, CtxDone, admin, quiet, reply>>

\* the loop back at its select without waiting for RunCleanup to return
LoopCleanupDone_NoWait ==
  /\ loop.pc = "cleanup"
  /\ loop' = [loop EXCEPT !.pc = "select"]
  /\ cl' = [cl EXCEPT !["ticker"] = IF @.pc = "done" THEN IdleTask(fs) ELSE @]
  /\ UNCHANGED <<fs, now, cfgVars, putVars, getVars, Paused, Mu, CtxDone, admin, quiet, reply>>

\* s.RunCleanup() has returned: back to the select
LoopCleanupDone ==
  /\ loop.pc = "cleanup"
  /\ cl["ticker"].pc = "done"
  /\ loop' = [loop EXCEPT !.pc = "select"]
  /\ cl' = [cl EXCEPT !["ticker"] = IdleTask(fs)]
  /\ UNCHANGED <<fs, now, cfgVars, putVars, getVars, Paused, Mu, CtxDone, admin, quiet, reply>>

\* a loop whose select never takes the Done case
LoopExit_NeverTaken ==
  /\ loop.pc = "select"
  /\ CtxDone
  /\ UNCHANGED vars

\* case <-s.Ctx.Done(): the goroutine returns
LoopExit ==
  /\ loop.pc = "select"
  /\ CtxDone
  /\ loop' = [loop EXCEPT !.pc = "exit"]
  /\ UNCHANGED <<fs, now, cl, cfgVars, putVars, getVars, Paused, Mu, CtxDone, admin, quiet, reply>>

\* Stop: s.Cancel()
Stop ==
  /\ ~CtxDone
  /\ CtxDone' = TRUE
  /\ UNCHANGED <<fs, now, cl, cfgVars, putVars, getVars, Paused, Mu, loop, admin, quiet, reply>>

\* PauseCleanup / ResumeCleanup is requested: the call of Pause() / Resume()
AdminCall(op) ==
  /\ admin = "idle"
  /\ admin' = op
  /\ quiet' = IF op = "resume" THEN FALSE ELSE quiet
  /\ UNCHANGED <<fs, now, cl, cfgVars, putVars, getVars, Paused, Mu, CtxDone, loop, reply>>

\* s.Mu.Lock() of Pause / Resume
AdminLock ==
  /\ admin \in {"pause", "resume"}
  /\ Mu = "free"
  /\ Mu' = "admin"
  /\ admin' = IF admin = "pause" THEN "pausing" ELSE "resuming"
  /\ UNCHANGED <<fs, now, cl, cfgVars, putVars, getVars, Paused, CtxDone, loop, quiet, reply>>

\* s.Paused = true, the deferred Unlock, and the return of Pause()
Pause ==
  /\ admin = "pausing"
  /\ Paused' = TRUE
  /\ Mu' = "free"
  /\ admin' = "idle"
  /\ quiet' = TRUE
  /\ UNCHANGED <<fs, now, cl, cfgVars, putVars, getVars, CtxDone, loop, reply>>

\* s.Paused = false, the deferred Unlock, and the return of Resume()
Resume ==
  /\ admin = "resuming"
  /\ Paused' = FALSE
  /\ Mu' = "free"
  /\ admin' = "idle"
  /\ UNCHANGED <<fs, now, cl, cfgVars, putVars, getVars, CtxDone, loop, quiet, reply>>

\* CleanupStatus is requested: the call of Status()
StatusCall ==
  /\ admin = "idle"
  /\ admin' = "status"
  /\ UNCHANGED <<fs, now, cl, cfgVars, putVars, getVars, Paused, Mu, CtxDone, loop, quiet, reply>>

Status_AlwaysRunning ==
  /\ admin = "status"
  /\ Mu = "free"
  /\ reply' = "running"
  /\ admin' = "idle"
  /\ UNCHANGED <<fs, now, cl, cfgVars, putVars, getVars, Paused, Mu, CtxDone, loop, quiet>>

\* Status: s.Mu.Lock(), the test of s.Paused, the deferred Unlock
Status ==
  /\ admin = "status"
  /\ Mu = "free"
  /\ reply' = IF Paused THEN "paused" ELSE "running"
  /\ admin' = "idle"
  /\ UNCHANGED <<fs, now, cl, cfgVars, putVars, getVars, Paused, Mu, CtxDone, loop, quiet>>

Trigger_UnlessPaused == ~Paused /\ ClBegin("manual")

\* TriggerCleanup: go func() { h.CleanupService.RunCleanup() }()
Trigger == ClBegin("manual")

\* the goroutine of TriggerCleanup ends when RunCleanup has returned
TriggerDone ==
  /\ cl["manual"].pc = "done"
  /\ cl' = [cl EXCEPT !["manual"] = IdleTask(fs)]
  /\ UNCHANGED <<fs, now, cfgVars, putVars, getVars, ctlVars>>

(***************************************************************************)
(* SpecCleanup: RunCleanup called directly, as the test does, on every     *)
(* content of the snapshot directories and every retention policy.         *)
(***************************************************************************)
CleanupStore(snap) ==
  [p \in AllPaths |->
     IF p \in {<<>>, <<"com">>, <<"com", "app">>, RelDir, SnapDir, SubDir, LibDir} THEN DirNode
     ELSE IF Parent(p) = SnapDir /\ Leaf(p) \in SnapFiles
     THEN (IF snap[Leaf(p)] = -1 THEN NoNode ELSE FileNode(<<>>, snap[Leaf(p)]))
     ELSE IF Parent(p) = LibDir
     THEN FileNode(<<>>, IF Leaf(p) = "README" THEN 0 ELSE HoursPerDay)
     ELSE FileNode(<<>>, 0)]

InitCleanup ==
  /\ \E snap \in [SnapFiles -> ModTimes \cup {-1}] : fs = CleanupStore(snap)
  /\ now = StartHour
  /\ keepDays \in KeepDaysChoices
  /\ keepLatestOnly \in BOOLEAN
  /\ cl = [t \in Tasks |-> IdleTask(fs)]
  /\ enabled = FALSE
  /\ CtlIdle
  /\ proxies = <<>>
  /\ body = <<>>
  /\ denied = {}
  /\ GetIdle

NextCleanup ==
  \/ ClBegin("manual")
  \/ ClWalk("manual")
  \/ ClList("manual")
  \/ ClDelete("manual")
  \/ ClDirDone("manual")
  \/ ClReturn("manual")
  \/ Tick

SpecCleanup == InitCleanup /\ [][NextCleanup]_vars

(***************************************************************************)
(* SpecCtl: the controller started on a store with one snapshot directory  *)
(* of two groups, with admin requests and manual triggers at any time.     *)
(***************************************************************************)
CtlPaths == {<<>>, <<"com">>, LibDir} \cup {LibDir \o <<f>> : f \in LibFiles}

CtlStore ==
  [p \in CtlPaths |-> CleanupStore([f \in SnapFiles |-> -1])[p]]

InitCtl ==
  /\ fs = CtlStore
  /\ now = StartHour
  /\ keepDays = 1
  /\ keepLatestOnly \in BOOLEAN
  /\ cl = [t \in Tasks |-> IdleTask(fs)]
  /\ enabled = TRUE
  /\ CtlIdle
  /\ proxies = <<>>
  /\ body = <<>>
  /\ denied = {}
  /\ GetIdle

NextCtl ==
  \/ Start
  \/ LoopTick
  \/ LoopLock
  \/ LoopRead
  \/ LoopCheck
  \/ LoopCleanupDone
  \/ LoopExit
  \/ Stop
  \/ AdminCall("pause")
  \/ AdminCall("resume")
  \/ AdminLock
  \/ Pause
  \/ Resume
  \/ StatusCall
  \/ Status
  \/ Trigger
  \/ TriggerDone
  \/ \E t \in Tasks : ClWalk(t) \/ ClList(t) \/ ClDelete(t) \/ ClDirDone(t) \/ ClReturn(t)

SpecCtl == InitCtl /\ [][NextCtl]_vars

(***************************************************************************)
(* Claims about the controller, checked under SpecCtl.                     *)
(***************************************************************************)
\* C1: after pause() has returned and until the next resume() is called, the
\* ticker loop does not begin any run_cleanup(), under every interleaving of
\* pause() with a tick of the loop.
C1_NoTickerCleanupAfterPause ==
  [][(quiet /\ loop.pc = "check") => loop'.pc # "cleanup"]_vars

\* C1 as amended: a tick that reads the paused flag after pause() has
\* returned and before the next resume() is called begins no run_cleanup().
C1_NoCleanupFromTickReadAfterPause ==
  [][(loop.pc = "check" /\ loop.readQuiet) => loop'.pc # "cleanup"]_vars

\* the loop has read the flag for a tick that came after pause() returned
C1_Witness ==
  /\ loop.pc = "check"
  /\ loop.readQuiet
  /\ loop.paused
  /\ quiet

(***************************************************************************)
(* Claims about the retention engine, checked under SpecCleanup.           *)
(***************************************************************************)
\* cleanupDir(cl[t].dir) has returned and nothing has run since
CleanedDir(t) == cl[t].pc \in {"dirs", "done"} /\ cl[t].dir # <<>>

IsMetadata(name) == HasPrefix(NameChars[name], MetadataPrefix)

EntriesOf(entries) == {entries[i] : i \in 1..Len(entries)}

\* the groups of the directory when cleanupDir listed it, and afterwards
GroupsBefore(t) == Versions(cl[t].entries)

GroupsAfter(t) == Versions(List(fs, cl[t].dir))

NewestTime(V) == MaxOf({v.MaxTime : v \in V})

Jar1 == "app-1.0-20231020.120000-1.jar"

Jar4 == "app-1.0-20251220.120000-4.jar"

Pom == "app-1.0-SNAPSHOT.pom"

\* C5: in a snapshot directory with several unique-snapshot jar groups and a
\* non-unique app-1.0-SNAPSHOT.pom older than the newest jar, cleanup with
\* keep_latest_only=true and keep_days=0 leaves exactly the newest jar and
\* also leaves the pom.
C5_PomRemains ==
  \A t \in Tasks :
    ( /\ CleanedDir(t) /\ cl[t].dir = SnapDir
      /\ keepLatestOnly /\ keepDays = 0
      /\ \E j1, j4, pom \in EntriesOf(cl[t].entries) :
           /\ j1.Name = Jar1 /\ j4.Name = Jar4 /\ pom.Name = Pom
           /\ j1.ModTime < j4.ModTime /\ pom.ModTime < j4.ModTime )
    => /\ fs[SnapDir \o <<Jar4>>].kind = "file"
       /\ fs[SnapDir \o <<Jar1>>].kind = "none"
       /\ fs[SnapDir \o <<Pom>>].kind = "file"

\* C6: for keep_days = K > 0, after cleanup_dir every version group still in
\* the directory satisfies now - max_mod_time <= K*24h, now being the time of
\* the pass, with keep_latest_only on or off.
C6_SurvivorsWithinKeepDays ==
  \A t \in Tasks :
    (CleanedDir(t) /\ keepDays > 0) =>
      \A v \in GroupsAfter(t) : cl[t].at - v.MaxTime <= keepDays * 24

\* a pass without keep_latest_only that deleted an expired group, kept a
\* group whose age is exactly K days and kept a younger one
C6_Witness ==
  \E t \in Tasks :
    /\ CleanedDir(t) /\ keepDays > 0 /\ ~keepLatestOnly
    /\ \E v \in GroupsBefore(t) : cl[t].at - v.MaxTime > keepDays * 24
    /\ \E v \in GroupsAfter(t) : cl[t].at - v.MaxTime = keepDays * 24
    /\ \E v \in GroupsAfter(t) : cl[t].at - v.MaxTime < keepDays * 24

\* the file at p is in a group that the age rule or the keep-latest rule
\* marks, judged on the store as it was when RunCleanup was called
MarkedBefore(t, p) ==
  LET V == Versions(List(cl[t].before, Parent(p)))
      g == CHOOSE v \in V : \E k \in 1..Len(v.Files) : v.Files[k].Name = Leaf(p)
  IN  \/ keepDays > 0 /\ now - g.MaxTime > keepDays * 24
      \/ keepLatestOnly /\ \E u \in V : u # g /\ u.MaxTime >= g.MaxTime

\* C7: run_cleanup() deletes only regular files directly inside a directory
\* whose name ends in -SNAPSHOT that belong to a group marked expired or
\* not-latest; maven-metadata* files, sub-directories of snapshot directories
\* and everything outside snapshot directories are unchanged, and with
\* keep_days <= 0 and keep_latest_only=false nothing is deleted.
C7_DeletesOnlyMarkedSnapshotFiles ==
  \A t \in Tasks :
    cl[t].pc # "idle" =>
      /\ \A p \in AllPaths :
           fs[p] # cl[t].before[p] =>
             /\ cl[t].before[p].kind = "file"
             /\ fs[p] = NoNode
             /\ HasSuffix(NameChars[Leaf(Parent(p))], SnapshotSuffix)
             /\ ~IsMetadata(Leaf(p))
             /\ MarkedBefore(t, p)
      /\ (keepDays <= 0 /\ ~keepLatestOnly) => fs = cl[t].before

\* a finished run that deleted files in both snapshot directories
C7_Witness ==
  \E t \in Tasks :
    /\ cl[t].pc = "done"
    /\ \E p \in AllPaths : Parent(p) = SnapDir /\ fs[p] # cl[t].before[p]
    /\ \E p \in AllPaths : Parent(p) = LibDir /\ fs[p] # cl[t].before[p]
    /\ fs[SnapDir \o <<"maven-metadata.xml">>].kind = "file"
    /\ fs[SubDir \o <<Jar1>>].kind = "file"

(***************************************************************************)
(* The GET handlers and the tee-cache fill.                                *)
(***************************************************************************)
CTypeChars ==
  ("text/html" :> <<"t","e","x","t","/","h","t","m","l">>) @@
  ("text/html; charset=utf-8" :> <<"t","e","x","t","/","h","t","m","l",";"," ","c","h","a","r","s","e","t","=","u","t","f","-","8">>) @@
  ("application/java-archive" :> <<"a","p","p","l","i","c","a","t","i","o","n","/","j","a","v","a","-","a","r","c","h","i","v","e">>) @@
  ("application/octet-stream" :> <<"a","p","p","l","i","c","a","t","i","o","n","/","o","c","t","e","t","-","s","t","r","e","a","m">>)

TextHtml == CTypeChars["text/html"]

\* the request paths: one hosted repository path and one aggregate artifact
ArtifactPath == <<"a.jar">>

DevRepo == <<"repository", "dev">>

DirectPath == DevRepo \o ArtifactPath

AggregateBase == <<"repository">>

PublicRepo == <<"repository", "maven-public">>

ReleasesRepo == <<"repository", "maven-releases">>

GetPaths ==
  UNION {Prefixes(repo \o ArtifactPath) : repo \in {DevRepo, PublicRepo, ReleasesRepo}}

\* the bytes of the artifact and of a mirror's HTML page
ArtifactBytes == <<"P", "Q", "R">>

HtmlBody == <<"<">>

MirrorKinds == {"down", "404", "html", "jar"}

\* Client.Get(url): what the mirror of a kind answers for an artifact path
MirrorResponse(kind, artifactPath, bytes) ==
  IF kind = "down"
  THEN [err |-> TRUE, status |-> 0, ctype |-> "text/html", body |-> <<>>]
  ELSE IF kind = "404" \/ artifactPath # ArtifactPath
  THEN [err |-> FALSE, status |-> 404, ctype |-> "text/html", body |-> HtmlBody]
  ELSE IF kind = "html"
  THEN [err |-> FALSE, status |-> 200, ctype |-> "text/html; charset=utf-8", body |-> HtmlBody]
  ELSE [err |-> FALSE, status |-> 200, ctype |-> "application/java-archive", body |-> bytes]

Accepted_NoHtmlCheck(resp) == ~resp.err /\ resp.status = 200

Accepted_None(resp) == FALSE

\* the response of a mirror is streamed to the client and to the store
Accepted(resp) ==
  /\ ~resp.err
  /\ resp.status = 200
  /\ ~HasPrefix(CTypeChars[resp.ctype], TextHtml)

StripRepo_Never(path) == path

\* the artifact path of a hosted path: "repository/<repo>/..." loses two
\* segments, "public/..." loses one
StripRepo(path) ==
  IF Len(path) >= 2 /\ path[1] = "repository" /\ Len(path) > 2
  THEN SubSeq(path, 3, Len(path))
  ELSE IF Len(path) >= 2 /\ path[1] = "public" /\ Len(path) > 1
  THEN SubSeq(path, 2, Len(path))
  ELSE path

RECURSIVE SelectDirs(_, _)
SelectDirs(entries, skip) ==
  IF entries = <<>> THEN <<>>
  ELSE (IF Head(entries).IsDir /\ Head(entries).Name \notin skip
        THEN <<Head(entries).Name>> ELSE <<>>) \o SelectDirs(Tail(entries), skip)

\* getAggregateRepos without the move of maven-releases to the front
getAggregateRepos_ListingOrder(store, basePath) ==
  LET names == SelectDirs(List(store, basePath), {"maven-public"})
  IN  [k \in 1..Len(names) |-> basePath \o <<names[k]>>]

\* getAggregateRepos that takes maven-public as a hosted repository
getAggregateRepos_WithPublic(store, basePath) ==
  LET names == SelectDirs(List(store, basePath), {})
  IN  [k \in 1..Len(names) |-> basePath \o <<names[k]>>]

\* the hosted repositories an aggregate request looks in: maven-releases
\* first, maven-public never
getAggregateRepos(store, basePath) ==
  LET entries  == List(store, basePath)
      others   == SelectDirs(entries, {"maven-public", "maven-releases"})
      hasReleases == \E k \in 1..Len(entries) :
                        entries[k].IsDir /\ entries[k].Name = "maven-releases"
      names    == IF hasReleases THEN <<"maven-releases">> \o others ELSE others
  IN  [k \in 1..Len(names) |-> basePath \o <<names[k]>>]

Dedup_KeepAll(entries, seen) == entries

\* the listing of an aggregate directory: the first entry of each name
RECURSIVE Dedup(_, _)
Dedup(entries, seen) ==
  IF entries = <<>> THEN <<>>
  ELSE IF Head(entries).Name \in seen THEN Dedup(Tail(entries), seen)
  ELSE <<Head(entries)>> \o Dedup(Tail(entries), seen \cup {Head(entries).Name})

OnEOF_Nothing(p) == p

\* NotifyReader.OnEOF: pw.Close()
OnEOF(p) == [p EXCEPT !.closed = TRUE, !.closes = @ + 1]

\* GetBegin that goes to the file probe at once
GetBegin_FileFirst(r, kind) ==
  /\ req[r].pc = "idle"
  /\ \A q \in Reqs : q < r => req[q].pc = "done"
  /\ req' = [req EXCEPT ![r] =
               [IdleReq(fs) EXCEPT !.pc = "get", !.kind = kind,
                  !.path = IF kind = "direct" THEN DirectPath ELSE ArtifactPath]]
  /\ UNCHANGED <<fs, now, cl, cfgVars, putVars, ctlVars, save, pipe>>

\* a handler invocation starts, after the earlier requests were answered
GetBegin(r, kind) ==
  /\ req[r].pc = "idle"
  /\ \A q \in Reqs : q < r => req[q].pc = "done"
  /\ req' = [req EXCEPT ![r] =
               [IdleReq(fs) EXCEPT !.pc = "list", !.kind = kind,
                  !.path = IF kind = "direct" THEN DirectPath ELSE ArtifactPath]]
  /\ UNCHANGED <<fs, now, cl, cfgVars, putVars, ctlVars, save, pipe>>

\* Store.List of the path (in every hosted repository for an aggregate
\* request): a directory with entries is rendered as an index page
GetList(r) ==
  /\ req[r].pc = "list"
  /\ LET repos   == IF req[r].kind = "aggregate"
                    THEN getAggregateRepos(fs, AggregateBase) ELSE <<>>
         entries == IF req[r].kind = "direct" THEN List(fs, req[r].path)
                    ELSE Dedup(Flatten([k \in 1..Len(repos) |->
                                          List(fs, repos[k] \o req[r].path)]), {})
         paths   == IF req[r].kind = "direct" THEN <<req[r].path>>
                    ELSE [k \in 1..Len(repos) |-> repos[k] \o req[r].path]
         probes  == [k \in 1..Len(paths) |->
                       [op |-> "list", path |-> paths[k],
                        hit |-> List(fs, paths[k]) # <<>>]]
     IN  IF entries # <<>>
         THEN req' = [req EXCEPT ![r].pc = "done", ![r].status = 200,
                                 ![r].ctype = "text/html", ![r].listing = entries,
                                 ![r].source = "listing",
                                 ![r].repos = repos, ![r].log = @ \o probes]
         ELSE req' = [req EXCEPT ![r].pc = "get",
                                 ![r].repos = repos, ![r].log = @ \o probes]
  /\ UNCHANGED <<fs, now, cl, cfgVars, putVars, ctlVars, save, pipe>>

\* the first hosted repository whose copy of the path Store.Get finds
FirstHit(store, paths) ==
  LET hits == {k \in 1..Len(paths) :
                 Get(store, paths[k]).found /\ ~Get(store, paths[k]).err}
  IN  IF hits = {} THEN 0 ELSE CHOOSE k \in hits : \A j \in hits : k <= j

\* Store.Get of the path: a hit is served from the store, a miss goes to the
\* mirrors
GetFile(r) ==
  /\ req[r].pc = "get"
  /\ LET repos == req[r].repos
         paths == IF req[r].kind = "direct" THEN <<req[r].path>>
                  ELSE [k \in 1..Len(repos) |-> repos[k] \o req[r].path]
         hit   == FirstHit(fs, paths)
         err   == req[r].kind = "direct" /\ Get(fs, req[r].path).err
         last  == IF hit # 0 THEN hit ELSE Len(paths)
         probes == [k \in 1..last |->
                      [op |-> "get", path |-> paths[k], hit |-> k = hit]]
     IN  IF hit # 0
         THEN req' = [req EXCEPT ![r].pc = "serve", ![r].file = paths[hit],
                                 ![r].status = 200, ![r].off = 0,
                                 ![r].ctype = "application/octet-stream",
                                 ![r].source = "local", ![r].log = @ \o probes]
         ELSE req' = [req EXCEPT ![r].pc = "proxy", ![r].i = 1, ![r].err = err,
                                 ![r].log = @ \o probes,
                                 ![r].missed = ~err,
                                 ![r].artifact = IF req[r].kind = "direct"
                                                 THEN StripRepo(req[r].path)
                                                 ELSE req[r].path,
                                 ![r].cache = IF req[r].kind = "direct"
                                              THEN req[r].path
                                              ELSE PublicRepo \o req[r].path]
  /\ UNCHANGED <<fs, now, cl, cfgVars, putVars, ctlVars, save, pipe>>

\* DataFromReader on the open file: io.Copy reads what the file holds beyond
\* the offset and writes it to the client, until a read returns nothing
GetServe(r) ==
  /\ req[r].pc = "serve"
  /\ LET data == IF fs[req[r].file].kind = "file" THEN fs[req[r].file].data ELSE <<>>
     IN  \/ /\ Len(data) > req[r].off
            /\ req' = [req EXCEPT ![r].off = Len(data),
                         ![r].out = @ \o SubSeq(data, req[r].off + 1, Len(data))]
         \/ /\ Len(data) > req[r].off
            /\ req' = [req EXCEPT ![r].pc = "done", ![r].copyErr = "client"]
         \/ /\ Len(data) <= req[r].off
            /\ req' = [req EXCEPT ![r].pc = "done"]
  /\ UNCHANGED <<fs, now, cl, cfgVars, putVars, ctlVars, save, pipe>>

\* one turn of the loop over Config.ProxyURLs; the first accepted response
\* starts the fill: io.Pipe, go Store.Save(cache path, pr), TeeReader
GetProxy(r) ==
  /\ req[r].pc = "proxy"
  /\ IF req[r].i > Len(proxies)
     THEN /\ req' = [req EXCEPT ![r].pc = "done",
                       ![r].status = IF req[r].err THEN 500 ELSE 404]
          /\ UNCHANGED <<save, pipe>>
     ELSE LET resp == MirrorResponse(proxies[req[r].i], req[r].artifact, body)
          IN  IF Accepted(resp)
              THEN /\ req' = [req EXCEPT ![r].pc = "read", ![r].up = resp.body,
                                ![r].off = 0, ![r].status = 200,
                                ![r].ctype = resp.ctype, ![r].source = "upstream",
                                ![r].mirrors = Append(@, req[r].i),
                                ![r].log = Append(@, [op |-> "mirror",
                                             path |-> req[r].artifact, hit |-> TRUE])]
                   /\ save' = [save EXCEPT ![r] = [pc |-> "mkdir", path |-> req[r].cache,
                                                   off |-> 0, buf |-> <<>>,
                                                   ctype |-> resp.ctype]]
                   /\ pipe' = [pipe EXCEPT ![r] = NoPipe]
              ELSE /\ req' = [req EXCEPT ![r].i = @ + 1,
                                ![r].mirrors = Append(@, req[r].i),
                                ![r].log = Append(@, [op |-> "mirror",
                                             path |-> req[r].artifact, hit |-> FALSE])]
                   /\ UNCHANGED <<save, pipe>>
  /\ UNCHANGED <<fs, now, cl, cfgVars, putVars, ctlVars>>

\* NotifyReader.Read, first half: resp.Body.Read returns n bytes and nil or
\* io.EOF, or fails; TeeReader hands the bytes to pw.Write
GetRead(r) ==
  /\ req[r].pc = "read"
  /\ LET rest == Len(req[r].up) - req[r].off
     IN  \/ \E n \in 1..rest : \E eof \in BOOLEAN :
              /\ eof => n = rest
              /\ req' = [req EXCEPT ![r].pc = "pipe", ![r].eof = eof,
                           ![r].off = @ + n,
                           ![r].chunk = SubSeq(req[r].up, req[r].off + 1, req[r].off + n)]
              /\ pipe' = [pipe EXCEPT ![r].data =
                            SubSeq(req[r].up, req[r].off + 1, req[r].off + n)]
         \/ /\ rest = 0
            /\ req' = [req EXCEPT ![r].pc = "done"]
            /\ pipe' = [pipe EXCEPT ![r] = OnEOF(@)]
         \/ /\ rest > 0
            /\ req' = [req EXCEPT ![r].pc = "done", ![r].copyErr = "upstream"]
            /\ UNCHANGED pipe
  /\ UNCHANGED <<fs, now, cl, cfgVars, putVars, ctlVars, save>>

\* GetPipe with pw.Close() after every read
GetPipe_CloseAlways(r) ==
  /\ req[r].pc = "pipe"
  /\ pipe[r].data = <<>>
  /\ req' = [req EXCEPT ![r].pc = "write"]
  /\ pipe' = [pipe EXCEPT ![r] = OnEOF(@)]
  /\ UNCHANGED <<fs, now, cl, cfgVars, putVars, ctlVars, save>>

\* NotifyReader.Read, second half: pw.Write returns once the reader of the
\* pipe has taken the bytes; on io.EOF the pipe is closed
GetPipe(r) ==
  /\ req[r].pc = "pipe"
  /\ pipe[r].data = <<>>
  /\ req' = [req EXCEPT ![r].pc = "write"]
  /\ pipe' = [pipe EXCEPT ![r] = IF req[r].eof THEN OnEOF(@) ELSE @]
  /\ UNCHANGED <<fs, now, cl, cfgVars, putVars, ctlVars, save>>

\* io.Copy writes the bytes to the client; a failed write ends the copy
GetWrite(r) ==
  /\ req[r].pc = "write"
  /\ \/ req' = [req EXCEPT ![r].pc = IF req[r].eof THEN "done" ELSE "read",
                  ![r].out = @ \o req[r].chunk, ![r].chunk = <<>>]
     \/ req' = [req EXCEPT ![r].pc = "done", ![r].copyErr = "client"]
  /\ UNCHANGED <<fs, now, cl, cfgVars, putVars, ctlVars, save, pipe>>

\* Save: os.MkdirAll of the directory
SaveMkdir(r) ==
  /\ save[r].pc = "mkdir"
  /\ \/ /\ MkdirAllOk(fs, Parent(save[r].path))
        /\ fs' = MkdirAll(fs, Parent(save[r].path))
        /\ save' = [save EXCEPT ![r].pc = "create"]
     \/ /\ save' = [save EXCEPT ![r].pc = "failed"]
        /\ UNCHANGED fs
  /\ UNCHANGED <<now, cl, cfgVars, putVars, ctlVars, req, pipe>>

\* Save: os.Create of the file
SaveCreate(r) ==
  /\ save[r].pc = "create"
  /\ \/ /\ CreateOk(fs, save[r].path)
        /\ fs' = Create(fs, save[r].path, now)
        /\ save' = [save EXCEPT ![r].pc = "read"]
     \/ /\ save' = [save EXCEPT ![r].pc = "failed"]
        /\ UNCHANGED fs
  /\ UNCHANGED <<now, cl, cfgVars, putVars, ctlVars, req, pipe>>

\* Save: io.Copy reads the pipe: it takes the bytes of a pending write, or
\* sees EOF once the pipe is closed
SaveRead(r) ==
  /\ save[r].pc = "read"
  /\ \/ /\ pipe[r].data # <<>>
        /\ save' = [save EXCEPT ![r].pc = "write", ![r].buf = pipe[r].data]
        /\ pipe' = [pipe EXCEPT ![r].data = <<>>]
     \/ /\ pipe[r].data = <<>>
        /\ pipe[r].closed
        /\ save' = [save EXCEPT ![r].pc = "done"]
        /\ UNCHANGED pipe
  /\ UNCHANGED <<fs, now, cl, cfgVars, putVars, ctlVars, req>>

\* Save: io.Copy writes the bytes to the file at the offset of its handle
SaveWrite(r) ==
  /\ save[r].pc = "write"
  /\ \/ /\ fs' = [fs EXCEPT ![save[r].path] =
                    IF @.kind = "file"
                    THEN FileNode(WriteAt(@.data, save[r].off, save[r].buf), now)
                    ELSE @]
        /\ save' = [save EXCEPT ![r].pc = "read", ![r].off = @ + Len(save[r].buf),
                                ![r].buf = <<>>]
     \/ /\ save' = [save EXCEPT ![r].pc = "failed"]
        /\ UNCHANGED fs
  /\ UNCHANGED <<now, cl, cfgVars, putVars, ctlVars, req, pipe>>

SaveStep(r) == SaveMkdir(r) \/ SaveCreate(r) \/ SaveRead(r) \/ SaveWrite(r)

(***************************************************************************)
(* SpecGet: GET requests, direct and aggregate, with any configuration of  *)
(* mirrors, on a store that does not hold the requested hosted path yet.   *)
(***************************************************************************)
MaxMirrors == 2

MaxBody == 2

EmptyStore == [p \in GetPaths |-> IF p = <<>> THEN DirNode ELSE NoNode]

\* the hosted repositories exist as empty directories
ReposStore ==
  [p \in GetPaths |-> IF p \in {<<>>, AggregateBase, DevRepo, ReleasesRepo}
                      THEN DirNode ELSE NoNode]

\* a regular file stands where the hosted repository's directory would be
BlockedStore ==
  [p \in GetPaths |-> IF p \in {<<>>, AggregateBase} THEN DirNode
                      ELSE IF p = DevRepo THEN FileNode(<<>>, 0) ELSE NoNode]

\* the releases repository holds a copy of the artifact
HostedStore ==
  [ReposStore EXCEPT ![ReleasesRepo \o ArtifactPath] = FileNode(<<"R">>, 0)]

InitGet ==
  /\ fs \in {EmptyStore, ReposStore, BlockedStore, HostedStore}
  /\ now = StartHour
  /\ keepDays = 1
  /\ keepLatestOnly = FALSE
  /\ cl = [t \in Tasks |-> IdleTask(fs)]
  /\ enabled = FALSE
  /\ CtlIdle
  /\ \E n \in 0..MaxMirrors : proxies \in [1..n -> MirrorKinds]
  /\ \E n \in 0..MaxBody : body = SubSeq(ArtifactBytes, 1, n)
  /\ denied = {}
  /\ GetIdle

NextGet ==
  \/ \E r \in Reqs : GetBegin(r, "direct")
  \/ \E r \in Reqs : GetBegin(r, "aggregate")
  \/ \E r \in Reqs : GetList(r)
  \/ \E r \in Reqs : GetFile(r)
  \/ \E r \in Reqs : GetServe(r)
  \/ \E r \in Reqs : GetProxy(r)
  \/ \E r \in Reqs : GetRead(r)
  \/ \E r \in Reqs : GetPipe(r)
  \/ \E r \in Reqs : GetWrite(r)
  \/ \E r \in Reqs : SaveMkdir(r)
  \/ \E r \in Reqs : SaveCreate(r)
  \/ \E r \in Reqs : SaveRead(r)
  \/ \E r \in Reqs : SaveWrite(r)

SpecGet == InitGet /\ [][NextGet]_vars

(***************************************************************************)
(* SpecFill: one GET request and its fill; the goroutine running Save is   *)
(* scheduled whenever it can take a step.                                  *)
(***************************************************************************)
NextFill ==
  \/ GetBegin(1, "direct")
  \/ GetBegin(1, "aggregate")
  \/ GetList(1)
  \/ GetFile(1)
  \/ GetServe(1)
  \/ GetProxy(1)
  \/ GetRead(1)
  \/ GetPipe(1)
  \/ GetWrite(1)
  \/ SaveMkdir(1)
  \/ SaveCreate(1)
  \/ SaveRead(1)
  \/ SaveWrite(1)

SpecFill ==
  InitGet /\ [][NextFill]_vars /\ WF_vars(SaveStep(1))

\* the client of request r has read the upstream body to EOF
ClientReadAll(r) ==
  /\ req[r].pc = "done"
  /\ req[r].source = "upstream"
  /\ req[r].copyErr = "none"

\* the save task of request r has returned nil and the cache path holds data
Cached(r, data) ==
  /\ save[r].pc = "done"
  /\ fs[save[r].path].kind = "file"
  /\ fs[save[r].path].data = data

CachePathOf(r) ==
  IF req[r].kind = "direct" THEN req[r].path ELSE PublicRepo \o req[r].path

\* C2: in a fill whose client read reaches EOF, unless a store write fails,
\* the save task eventually finishes and the file at the cache path (the
\* request path, or repository/maven-public/<artifact path> for an aggregate
\* request) then holds exactly the upstream body.
C2_FillStoresBody ==
  ClientReadAll(1) ~>
    (save[1].pc = "failed"
       \/ (Cached(1, req[1].up) /\ save[1].path = CachePathOf(1)))

C2_Witness ==
  /\ ClientReadAll(1)
  /\ req[1].kind = "aggregate"
  /\ Len(req[1].up) >= 2
  /\ req[1].up = body
  /\ Cached(1, body)
  /\ save[1].path = PublicRepo \o ArtifactPath

\* C3: when the save task of a fill has failed, the request task is not
\* blocked: it is not inside pw.Write with bytes that no reader will take.
C3_SaveFailureDoesNotBlock ==
  \A r \in Reqs :
    save[r].pc = "failed" => ~(req[r].pc = "pipe" /\ pipe[r].data # <<>>)

AllHtml == Len(proxies) > 0 /\ \A k \in 1..Len(proxies) : proxies[k] = "html"

\* C8: no save task is fed from a response whose Content-Type begins with
\* text/html and no file of the store holds bytes of such a response; when
\* every mirror answers 200 with text/html, a GET of a locally missing path
\* is answered 404 and the store is as it was when the request arrived.
C8_HtmlNeverCached ==
  /\ \A r \in Reqs :
       save[r].pc # "none" => ~HasPrefix(CTypeChars[save[r].ctype], TextHtml)
  /\ \A p \in DOMAIN fs : \A k \in 1..Len(fs[p].data) : fs[p].data[k] # HtmlBody[1]
  /\ \A r \in Reqs :
       (req[r].pc = "done" /\ req[r].missed /\ AllHtml)
         => (req[r].status = 404 /\ fs = req[r].before)

C8_Witness ==
  /\ Len(proxies) = 2
  /\ AllHtml
  /\ req[1].pc = "done" /\ req[1].kind = "direct" /\ req[1].mirrors = <<1, 2>>
  /\ req[2].pc = "done" /\ req[2].kind = "aggregate" /\ req[2].mirrors = <<1, 2>>
  /\ req[2].status = 404

\* C9: after a direct GET of a locally missing path was filled from a mirror
\* with a non-empty body, the client got the whole body and the save task
\* finished, a subsequent direct GET of the path is served the same body from
\* the store and contacts no mirror.
C9_SecondGetFromStore ==
  (/\ req[1].kind = "direct" /\ req[1].missed /\ ClientReadAll(1)
   /\ req[1].out = body /\ body # <<>>
   /\ Cached(1, body)
   /\ req[2].kind = "direct" /\ req[2].pc = "done" /\ req[2].copyErr = "none")
    => (/\ req[2].source = "local"
        /\ req[2].out = req[1].out
        /\ req[2].mirrors = <<>>)

\* C10: when the response write of a fill failed mid-stream and the fill left
\* a truncated file at the cache path (the save task waits on the pipe that
\* is never closed), a subsequent GET of the path downloads the artifact from
\* a mirror instead of serving the truncated file.
C10_TruncatedFileRefetched ==
  (/\ req[1].kind = "direct" /\ req[1].pc = "done"
   /\ req[1].source = "upstream" /\ req[1].copyErr = "client"
   /\ req[2].kind = "direct" /\ req[2].pc = "done" /\ req[2].copyErr = "none"
   /\ req[2].before[DirectPath].kind = "file"
   /\ req[2].before[DirectPath].data # body
   /\ fs[DirectPath] = req[2].before[DirectPath]
   /\ save[1].pc = "read" /\ pipe[1] = NoPipe
   /\ "jar" \in {proxies[k] : k \in 1..Len(proxies)})
    => req[2].source = "upstream"

(***************************************************************************)
(* SpecAgg: one aggregate GET on every arrangement of four entries of the  *)
(* base prefix, no mirror configured.                                      *)
(***************************************************************************)
SubRepo == <<"repository", "sub">>

AggRepos == {DevRepo, PublicRepo, ReleasesRepo, SubRepo}

AggNames == {"a.jar", "app"}

AggPaths ==
  {<<>>, AggregateBase} \cup AggRepos \cup {repo \o <<n>> : repo \in AggRepos, n \in AggNames}

\* the bytes of the files of a repository, of a different size in each
RepoBytes ==
  (ReleasesRepo :> <<"R">>) @@ (DevRepo :> <<"D", "D">>) @@
  (SubRepo :> <<"S", "S", "S">>) @@ (PublicRepo :> <<"M", "M", "M", "M">>)

NodeKinds == {"none", "file", "dir"}

NodeOf(kind, data) ==
  IF kind = "none" THEN NoNode ELSE IF kind = "dir" THEN DirNode ELSE FileNode(data, 0)

\* the store in which each entry of the base prefix and each child of it is
\* of the given kind (a child exists only below a directory)
AggStore(kinds) ==
  [p \in AggPaths |->
     IF p \in {<<>>, AggregateBase} THEN DirNode
     ELSE IF p \in AggRepos THEN NodeOf(kinds[p], <<>>)
     ELSE IF kinds[Parent(p)] = "dir" THEN NodeOf(kinds[p], RepoBytes[Parent(p)])
     ELSE NoNode]

AggKinds ==
  {k \in [AggPaths \ {<<>>, AggregateBase} -> NodeKinds] :
     \A p \in DOMAIN k :
       /\ (p \notin AggRepos /\ k[Parent(p)] # "dir") => k[p] = "none"
       /\ (Leaf(p) = "app") => k[p] # "dir"}

\* a handler invocation for a path starts, after the earlier requests were
\* answered
GetBeginAt(r, kind, path) ==
  /\ req[r].pc = "idle"
  /\ \A q \in Reqs : q < r => req[q].pc = "done"
  /\ req' = [req EXCEPT ![r] =
               [IdleReq(fs) EXCEPT !.pc = "list", !.kind = kind, !.path = path]]
  /\ UNCHANGED <<fs, now, cl, cfgVars, putVars, ctlVars, save, pipe>>

InitAgg ==
  /\ \E kinds \in AggKinds : fs = AggStore(kinds)
  /\ now = StartHour
  /\ keepDays = 1
  /\ keepLatestOnly = FALSE
  /\ cl = [t \in Tasks |-> IdleTask(fs)]
  /\ enabled = FALSE
  /\ CtlIdle
  /\ proxies = <<>>
  /\ body = <<>>
  /\ denied = {}
  /\ GetIdle

NextAgg ==
  \/ GetBeginAt(1, "aggregate", <<>>)
  \/ GetBeginAt(1, "aggregate", ArtifactPath)
  \/ GetList(1)
  \/ GetFile(1)
  \/ GetServe(1)
  \/ GetProxy(1)

SpecAgg == InitAgg /\ [][NextAgg]_vars

\* the aggregate request 1 was answered with a directory index
AggListed ==
  /\ req[1].pc = "done"
  /\ req[1].kind = "aggregate"
  /\ req[1].source = "listing"

\* C11: an aggregate directory listing holds each entry name at most once,
\* and a name that occurs in maven-releases is rendered with the type and
\* the size of the maven-releases entry.
C11_ListingDedupReleasesWins ==
  AggListed =>
    LET l == req[1].listing
        dir == ReleasesRepo \o req[1].path
    IN  /\ \A i, j \in 1..Len(l) : l[i].Name = l[j].Name => i = j
        /\ \A n \in AggNames :
             (dir \o <<n>> \in DOMAIN fs /\ fs[dir].kind = "dir" /\ fs[dir \o <<n>>].kind # "none")
               => \E i \in 1..Len(l) :
                    /\ l[i].Name = n
                    /\ l[i].IsDir = (fs[dir \o <<n>>].kind = "dir")
                    /\ l[i].Size = Len(fs[dir \o <<n>>].data)

C11_Witness ==
  /\ AggListed
  /\ req[1].path = <<>>
  /\ fs[ReleasesRepo \o <<"a.jar">>].kind = "file"
  /\ fs[DevRepo \o <<"a.jar">>].kind = "dir"
  /\ fs[SubRepo \o <<"a.jar">>].kind = "file"
  /\ fs[DevRepo \o <<"app">>].kind = "file"
  /\ Len(req[1].listing) = 2

\* the lookup order of the four entries of the base prefix: maven-releases,
\* then the others by name, never maven-public
LookupOrder == <<ReleasesRepo, DevRepo, SubRepo>>

HoldsFile(repo, path) == fs[repo].kind = "dir" /\ fs[repo \o path].kind = "file"

\* C12: an aggregate GET of a path that is a directory in no repository is
\* served the file of the first repository of the lookup order that holds it
\* (maven-releases before the others, the others in listing order), and is
\* not served from the store when only maven-public holds it.
C12_FirstRepoInOrderServes ==
  (/\ req[1].pc = "done" /\ req[1].kind = "aggregate" /\ req[1].copyErr = "none"
   /\ req[1].path = ArtifactPath
   /\ \A k \in 1..Len(LookupOrder) : fs[LookupOrder[k] \o ArtifactPath].kind # "dir")
    => LET holders == {k \in 1..Len(LookupOrder) : HoldsFile(LookupOrder[k], ArtifactPath)}
           first   == CHOOSE k \in holders : \A j \in holders : k <= j
       IN  IF holders = {}
           THEN req[1].source # "local" /\ req[1].status = 404 /\ req[1].out = <<>>
           ELSE /\ req[1].source = "local"
                /\ req[1].status = 200
                /\ req[1].file = LookupOrder[first] \o ArtifactPath
                /\ req[1].out = fs[LookupOrder[first] \o ArtifactPath].data

C12_Witness ==
  /\ req[1].pc = "done" /\ req[1].kind = "aggregate" /\ req[1].copyErr = "none"
  /\ req[1].path = ArtifactPath
  /\ HoldsFile(PublicRepo, ArtifactPath)
  /\ HoldsFile(DevRepo, ArtifactPath)
  /\ HoldsFile(ReleasesRepo, ArtifactPath)
  /\ HoldsFile(SubRepo, ArtifactPath)
  /\ req[1].out = RepoBytes[ReleasesRepo]

(***************************************************************************)
(* SpecCtlFair: SpecCtl in which a goroutine that can take a step is       *)
(* eventually scheduled, a goroutine waiting for the mutex eventually gets *)
(* it, and a loop that keeps coming back to its select with the context    *)
(* cancelled eventually takes the Done case (select chooses at random      *)
(* among the ready cases).                                                 *)
(***************************************************************************)
\* RunCleanup of task t has been called and has not returned: one of ClWalk,
\* ClList, ClDelete, ClDirDone, ClReturn is enabled
TaskRunning(t) == cl[t].pc \in {"walk", "dirs", "delete"}

\* weak fairness of the steps of RunCleanup of task t, written with the
\* condition under which a step is enabled
TaskFair(t) ==
  []<>(~TaskRunning(t)) \/ []<><<TaskRunning(t) /\ cl'[t] # cl[t]>>_vars

LoopStep ==
  LoopTick \/ LoopLock \/ LoopRead \/ LoopCheck \/ LoopCleanupDone \/ LoopExit

SpecCtlFair ==
  /\ InitCtl /\ [][NextCtl]_vars
  /\ TaskFair("manual")
  /\ TaskFair("ticker")
  /\ WF_vars(LoopStep)
  /\ SF_vars(LoopLock)
  /\ SF_vars(LoopExit)
  /\ WF_vars(Pause \/ Resume)

\* the file of the store of SpecCtl that every complete pass deletes
Expired == LibDir \o <<"README">>

\* C13: a manual trigger is accepted whatever the paused flag is; a pass
\* triggered while the controller is paused runs to its end, and at its end
\* the expired group of the snapshot directory is gone; no step of the
\* triggered pass changes the paused flag.
C13_TriggerIgnoresPause ==
  /\ [](cl["manual"].pc = "idle" => ENABLED Trigger)
  /\ [][cl'["manual"] # cl["manual"] => Paused' = Paused]_vars
  /\ [](cl["manual"].pc = "done" => fs[Expired].kind = "none")
  /\ (cl["manual"].paused /\ cl["manual"].pc = "walk") ~> (cl["manual"].pc = "done")

C13_Witness ==
  /\ cl["manual"].paused
  /\ cl["manual"].pc = "done"
  /\ cl["manual"].before[Expired].kind = "file"
  /\ fs[Expired].kind = "none"
  /\ Paused
  /\ loop.pc = "off"

\* C14: Status() returns "paused" exactly when the most recent of the calls
\* pause() and resume() was pause(), "running" otherwise (also before any
\* call); the paused flag changes only in a step of Pause() or Resume().
C14_StatusFollowsLastCall ==
  /\ [][(admin = "status" /\ admin' = "idle")
          => (reply' = IF quiet THEN "paused" ELSE "running")]_vars
  /\ [][Paused' # Paused => (admin \in {"pausing", "resuming"} /\ admin' = "idle")]_vars

C14_Witness ==
  /\ reply = "paused"
  /\ quiet
  /\ admin = "idle"
  /\ loop.pc = "cleanup"
  /\ cl["manual"].pc = "delete"
  /\ CtxDone

\* C20: once Stop() was called, a started loop eventually returns; after it
\* has returned no ticker-driven cleanup begins; Stop() touches no cleanup,
\* and a RunCleanup in progress after Stop() runs to its end, where the
\* expired group of the snapshot directory is gone.
C20_StopEndsLoopNotCleanup ==
  /\ (CtxDone /\ loop.pc # "off") ~> (loop.pc = "exit")
  /\ [][loop.pc = "exit" => (loop'.pc = "exit" /\ cl'["ticker"] = cl["ticker"])]_vars
  /\ [](loop.pc = "exit" => cl["ticker"].pc = "idle")
  /\ [][CtxDone' # CtxDone => cl' = cl]_vars
  /\ \A t \in Tasks : (CtxDone /\ TaskRunning(t)) ~> (cl[t].pc = "done")
  /\ [](cl["ticker"].pc = "done" => fs[Expired].kind = "none")

C20_Witness ==
  /\ CtxDone
  /\ loop.pc = "cleanup"
  /\ cl["ticker"].pc = "done"
  /\ cl["ticker"].before[Expired].kind = "file"
  /\ fs[Expired].kind = "none"
  /\ cl["manual"].pc = "idle"
  /\ cl["manual"].before[Expired].kind = "file"

(***************************************************************************)
(* PUT requests: HandleUpload runs Store.Save on the request body.         *)
(***************************************************************************)
\* cleanupDir of the directory of a path is between its List and its return
InCleanupOf(path) ==
  \E t \in Tasks : cl[t].pc = "delete" /\ cl[t].dir = Parent(path)

\* a HandleUpload invocation starts
PutBegin(u, path, b) ==
  /\ put[u].pc = "idle"
  /\ put' = [put EXCEPT ![u] = [IdlePut EXCEPT !.pc = "mkdir", !.path = path, !.body = b,
                                  !.began = InCleanupOf(path),
                                  !.after = {v \in Puts : put[v].pc = "done"}]]
  /\ UNCHANGED <<fs, now, cl, cfgVars, ctlVars, getVars, head>>

\* Save returns an error: 500
PutFail(u) ==
  put' = [put EXCEPT ![u].pc = "done", ![u].status = 500, ![u].getpc = req[1].pc]

\* Save: os.MkdirAll of the directory
PutMkdir(u) ==
  /\ put[u].pc = "mkdir"
  /\ \/ /\ MkdirAllOk(fs, Parent(put[u].path))
        /\ fs' = MkdirAll(fs, Parent(put[u].path))
        /\ put' = [put EXCEPT ![u].pc = "create"]
     \/ /\ PutFail(u)
        /\ UNCHANGED fs
  /\ UNCHANGED <<now, cl, cfgVars, ctlVars, getVars, head>>

\* Save: os.Create of the file
PutCreate(u) ==
  /\ put[u].pc = "create"
  /\ \/ /\ CreateOk(fs, put[u].path)
        /\ fs' = Create(fs, put[u].path, now)
        /\ put' = [put EXCEPT ![u].pc = "copy"]
     \/ /\ PutFail(u)
        /\ UNCHANGED fs
  /\ UNCHANGED <<now, cl, cfgVars, ctlVars, getVars, head>>

\* Save: one turn of io.Copy: some bytes of the request body are read and
\* written to the file at the offset of the handle; or the read or the write
\* fails
PutCopy(u) ==
  /\ put[u].pc = "copy"
  /\ Len(put[u].body) > put[u].off
  /\ \/ \E n \in 1..(Len(put[u].body) - put[u].off) :
          /\ fs' = [fs EXCEPT ![put[u].path] =
                      IF @.kind = "file"
                      THEN FileNode(WriteAt(@.data, put[u].off,
                                            SubSeq(put[u].body, put[u].off + 1, put[u].off + n)),
                                    now)
                      ELSE @]
          /\ put' = [put EXCEPT ![u].off = @ + n]
     \/ /\ PutFail(u)
        /\ UNCHANGED fs
  /\ UNCHANGED <<now, cl, cfgVars, ctlVars, getVars, head>>

\* the body is at EOF: Save returns nil and the handler answers 201
PutEnd(u) ==
  /\ put[u].pc = "copy"
  /\ Len(put[u].body) = put[u].off
  /\ put' = [put EXCEPT ![u].pc = "done", ![u].status = 201,
                        ![u].ended = InCleanupOf(put[u].path),
                        ![u].getpc = req[1].pc]
  /\ UNCHANGED <<fs, now, cl, cfgVars, ctlVars, getVars, head>>

(***************************************************************************)
(* SpecPut: two PUT requests for one path, with bodies of different        *)
(* lengths, at any time, and a GET of the path after them.                 *)
(***************************************************************************)
PutBodies == {<<"X", "Y">>, <<"Z">>}

InitPut ==
  /\ fs \in {EmptyStore, ReposStore, BlockedStore}
  /\ now = StartHour
  /\ keepDays = 1
  /\ keepLatestOnly = FALSE
  /\ cl = [t \in Tasks |-> IdleTask(fs)]
  /\ enabled = FALSE
  /\ CtlIdle
  /\ proxies = <<>>
  /\ body = <<>>
  /\ denied = {}
  /\ GetIdle

NextPut ==
  \/ \E u \in Puts : \E b \in PutBodies : PutBegin(u, DirectPath, b)
  \/ \E u \in Puts : PutMkdir(u)
  \/ \E u \in Puts : PutCreate(u)
  \/ \E u \in Puts : PutCopy(u)
  \/ \E u \in Puts : PutEnd(u)
  \/ GetBeginAt(1, "direct", DirectPath)
  \/ GetList(1)
  \/ GetFile(1)
  \/ GetServe(1)
  \/ GetProxy(1)

SpecPut == InitPut /\ [][NextPut]_vars

\* the PUT requests were answered or never made when the GET arrived
QuietGet ==
  /\ req[1].pc = "done" /\ req[1].copyErr = "none"
  /\ \A u \in Puts : put[u].pc = "idle" \/ (put[u].pc = "done" /\ put[u].getpc = "idle")

\* PUT u was answered 201 and no other PUT wrote while or after it ran
LastPut(u) ==
  /\ put[u].pc = "done" /\ put[u].status = 201
  /\ \A v \in Puts \ {u} : put[v].pc = "idle" \/ (put[v].pc = "done" /\ v \in put[u].after)

\* C15: after a PUT of body b to a path was answered 201, with no write to
\* the path during or after it, the file holds exactly b, also when an earlier
\* PUT had stored a longer body; a GET made then is answered 200 with body b
\* and Content-Type application/octet-stream.
C15_PutThenGet ==
  \A u \in Puts :
    LastPut(u) =>
      /\ fs[put[u].path] = FileNode(put[u].body, now)
      /\ QuietGet =>
           /\ req[1].status = 200
           /\ req[1].out = put[u].body
           /\ req[1].ctype = "application/octet-stream"

C15_Witness ==
  /\ LastPut(2)
  /\ put[1].pc = "done" /\ put[1].status = 201 /\ Len(put[1].body) = 2
  /\ put[2].body = <<"Z">>
  /\ QuietGet
  /\ req[1].out = <<"Z">>

\* C16: when two PUT requests for one path were both answered 201, the file
\* holds the whole body of one of them.
C16_ConcurrentPutsNoMixture ==
  (\A u \in Puts : put[u].pc = "done" /\ put[u].status = 201)
    => \E u \in Puts : fs[put[u].path].data = put[u].body

(***************************************************************************)
(* SpecUp: one PUT into the snapshot directory, over the old jar or for a  *)
(* new file, at any time before, during or after a RunCleanup pass.        *)
(***************************************************************************)
UpStore ==
  CleanupStore([f \in SnapFiles |->
                  IF f = Jar1 THEN 0 ELSE IF f = Jar4 THEN 2 * HoursPerDay ELSE -1])

UpPaths == {SnapDir \o <<Jar1>>, SnapDir \o <<Pom>>}

InitUp ==
  /\ fs = UpStore
  /\ now = StartHour
  /\ keepDays \in {0, 1}
  /\ keepLatestOnly \in BOOLEAN
  /\ cl = [t \in Tasks |-> IdleTask(fs)]
  /\ enabled = FALSE
  /\ CtlIdle
  /\ proxies = <<>>
  /\ body = <<>>
  /\ denied = {}
  /\ GetIdle

NextUp ==
  \/ ClBegin("manual")
  \/ ClWalk("manual")
  \/ ClList("manual")
  \/ ClDelete("manual")
  \/ ClDirDone("manual")
  \/ ClReturn("manual")
  \/ \E p \in UpPaths : \E b \in PutBodies : PutBegin(1, p, b)
  \/ PutMkdir(1)
  \/ PutCreate(1)
  \/ PutCopy(1)
  \/ PutEnd(1)

SpecUp == InitUp /\ [][NextUp]_vars

\* C17: a file whose PUT started and was answered 201 while cleanupDir of its
\* directory was running is in the store, with the uploaded bytes, when that
\* RunCleanup pass has returned.
C17_UploadSurvivesPass ==
  \A u \in Puts :
    (/\ put[u].pc = "done" /\ put[u].status = 201
     /\ put[u].began /\ put[u].ended
     /\ cl["manual"].pc = "done")
      => (fs[put[u].path].kind = "file" /\ fs[put[u].path].data = put[u].body)

(***************************************************************************)
(* HEAD requests: HandleHead and HandleAggregateHead.                      *)
(***************************************************************************)
\* Store.Head: os.Stat; a missing path is found=false without error
StoreHead(store, p) ==
  LET notDir == \E k \in 0..(Len(p) - 1) : store[SubSeq(p, 1, k)].kind = "file"
  IN  [found |-> ~notDir /\ store[p].kind # "none", err |-> notDir]

\* the path a HEAD request asks the mirrors for: HandleHead uses the request
\* path as it is, HandleAggregateHead the artifact path
HeadAsks(kind, path) == path

\* a HEAD handler invocation for a path starts
HeadBegin(kind, path) ==
  /\ head.pc = "idle"
  /\ head' = [IdleHead EXCEPT !.pc = "stat", !.kind = kind, !.path = path]
  /\ UNCHANGED <<fs, now, cl, cfgVars, ctlVars, getVars, put>>

\* Store.Head of the path, in every hosted repository for an aggregate request
HeadStat ==
  /\ head.pc = "stat"
  /\ LET repos == getAggregateRepos(fs, AggregateBase)
         paths == IF head.kind = "direct" THEN <<head.path>>
                  ELSE [k \in 1..Len(repos) |-> repos[k] \o head.path]
         hit   == \E k \in 1..Len(paths) :
                    StoreHead(fs, paths[k]).found /\ ~StoreHead(fs, paths[k]).err
         err   == head.kind = "direct" /\ StoreHead(fs, head.path).err
     IN  IF hit
         THEN head' = [head EXCEPT !.pc = "done", !.status = 200, !.source = "local",
                                   !.before = fs]
         ELSE head' = [head EXCEPT !.pc = "proxy", !.i = 1, !.err = err, !.missed = ~err,
                                   !.before = fs]
  /\ UNCHANGED <<fs, now, cl, cfgVars, ctlVars, getVars, put>>

\* HeadProxy that also stores what the mirror holds
HeadProxy_Fills ==
  /\ head.pc = "proxy"
  /\ head.i <= Len(proxies)
  /\ head' = [head EXCEPT !.pc = "done", !.status = 200, !.source = "upstream"]
  /\ fs' = Create(MkdirAll(fs, Parent(PublicRepo \o ArtifactPath)),
                  PublicRepo \o ArtifactPath, now)
  /\ UNCHANGED <<now, cl, cfgVars, ctlVars, getVars, put>>

\* one turn of the loop over Config.ProxyURLs: Client.Head; the first mirror
\* answering 200 ends the request, the end of the list gives 404 (500 when
\* Store.Head had failed)
HeadProxy ==
  /\ head.pc = "proxy"
  /\ IF head.i > Len(proxies)
     THEN head' = [head EXCEPT !.pc = "done",
                               !.status = IF head.err THEN 500 ELSE 404]
     ELSE LET asks == HeadAsks(head.kind, head.path)
              resp == MirrorResponse(proxies[head.i], asks, body)
          IN  IF ~resp.err /\ resp.status = 200
              THEN head' = [head EXCEPT !.pc = "done", !.status = 200,
                                        !.source = "upstream",
                                        !.asked = Append(@, asks)]
              ELSE head' = [head EXCEPT !.i = @ + 1, !.asked = Append(@, asks)]
  /\ UNCHANGED <<fs, now, cl, cfgVars, ctlVars, getVars, put>>

(***************************************************************************)
(* SpecHead: one HEAD request, direct or aggregate, at any time before,    *)
(* during or after one GET request and its fill.                           *)
(***************************************************************************)
NextHead ==
  \/ HeadBegin("direct", DirectPath)
  \/ HeadBegin("aggregate", ArtifactPath)
  \/ HeadStat
  \/ HeadProxy
  \/ GetBegin(1, "direct")
  \/ GetBegin(1, "aggregate")
  \/ GetList(1)
  \/ GetFile(1)
  \/ GetServe(1)
  \/ GetProxy(1)
  \/ GetRead(1)
  \/ GetPipe(1)
  \/ GetWrite(1)
  \/ SaveMkdir(1)
  \/ SaveCreate(1)
  \/ SaveRead(1)
  \/ SaveWrite(1)

SpecHead == InitGet /\ [][NextHead]_vars

\* C18: no step of a HEAD request, direct or aggregate, changes the store or
\* starts a fill, whether the request is answered from the store, by a
\* mirror or with 404.
C18_HeadLeavesStore ==
  [][head' # head => (fs' = fs /\ save' = save /\ pipe' = pipe)]_vars

C18_Witness ==
  /\ head.pc = "done"
  /\ head.kind = "aggregate"
  /\ head.source = "upstream"
  /\ head.status = 200
  /\ fs[PublicRepo \o ArtifactPath].kind = "none"
  /\ req[1].pc = "idle"

\* C19: for a hosted path that the store reports missing and mirrors that
\* serve no HTML, a direct HEAD asks every mirror for the artifact path that
\* a direct GET asks for, and answers 200 exactly when the GET answers 200.
C19_HeadMirrorsGet ==
  (/\ head.pc = "done" /\ head.kind = "direct" /\ head.missed
   /\ req[1].pc = "done" /\ req[1].kind = "direct" /\ req[1].missed
   /\ req[1].copyErr = "none"
   /\ \A k \in 1..Len(proxies) : proxies[k] # "html")
    => /\ \A k \in 1..Len(head.asked) : head.asked[k] = req[1].artifact
       /\ (head.status = 200) <=> (req[1].status = 200)

(***************************************************************************)
(* Mirror fallback.                                                        *)
(***************************************************************************)
\* mirror k answers the request's artifact path with 200 and a body that is
\* not HTML
ServesArtifact(r, k) ==
  LET resp == MirrorResponse(proxies[k], req[r].artifact, body)
  IN  /\ ~resp.err
      /\ resp.status = 200
      /\ resp.ctype \notin {"text/html", "text/html; charset=utf-8"}

\* C21: after a local miss the mirrors are contacted in configured order; a
\* mirror that is down, answers non-200 or answers HTML is passed over, the
\* first mirror serving the artifact supplies status, content type and body,
\* and with no such mirror every mirror was tried and the answer is 404; the
\* status is never an error status other than 404.
C21_MirrorsInOrder ==
  \A r \in Reqs :
    (req[r].pc = "done" /\ req[r].missed) =>
      LET m     == req[r].mirrors
          goods == {k \in 1..Len(proxies) : ServesArtifact(r, k)}
      IN  /\ \A j \in 1..Len(m) : m[j] = j
          /\ req[r].status \in {200, 404}
          /\ IF goods = {}
             THEN /\ Len(m) = Len(proxies)
                  /\ req[r].status = 404
                  /\ req[r].source = "none"
             ELSE LET f    == CHOOSE k \in goods : \A j \in goods : k <= j
                      resp == MirrorResponse(proxies[f], req[r].artifact, body)
                  IN  /\ Len(m) = f
                      /\ req[r].status = 200
                      /\ req[r].source = "upstream"
                      /\ req[r].ctype = resp.ctype
                      /\ req[r].copyErr = "none" => req[r].out = resp.body

C21_Witness ==
  /\ req[1].pc = "done" /\ req[1].missed
  /\ proxies = <<"html", "jar">>
  /\ req[1].mirrors = <<1, 2>>
  /\ req[1].status = 200
  /\ body # <<>>
  /\ req[1].out = body
  /\ req[2].pc = "done" /\ req[2].kind = "aggregate" /\ req[2].missed
  /\ req[2].status = 200

(***************************************************************************)
(* The end of the goroutine running Store.Save.                            *)
(***************************************************************************)
SaveEnded(r) == save[r].pc \in {"none", "done", "failed"}

\* C22: once the request task of a fill has returned, whether after EOF of
\* the upstream body, after a failed upstream read or after a failed write
\* to the client, the goroutine running Store.Save eventually returns.
C22_SaveTaskTerminates ==
  [](req[1].pc = "done" => <>SaveEnded(1))

\* the last read of the upstream body by request r returned io.EOF
SawEOF(r) ==
  /\ req[r].source = "upstream"
  /\ \/ req[r].pc \in {"write", "done"} /\ req[r].eof
     \/ req[r].pc = "done" /\ req[r].copyErr = "none"

\* C23: in a fill pw.Close() is called at most once; the pipe-writer is
\* closed only after the read that returned io.EOF, with every byte of the
\* upstream body read and handed to the pipe, and it is closed as soon as
\* that read has returned.
C23_PipeClosedOnceAtEOF ==
  \A r \in Reqs :
    /\ pipe[r].closes <= 1
    /\ pipe[r].closed <=> pipe[r].closes = 1
    /\ pipe[r].closed =>
         /\ SawEOF(r)
         /\ req[r].off = Len(req[r].up)
         /\ pipe[r].data = <<>>
    /\ SawEOF(r) => pipe[r].closed

C23_Witness ==
  /\ req[1].pc = "done"
  /\ req[1].source = "upstream"
  /\ Len(req[1].up) = 2
  /\ req[1].out = req[1].up
  /\ pipe[1].closes = 1
  /\ save[1].pc = "done"

(***************************************************************************)
(* The order of the probes of one GET request.                             *)
(***************************************************************************)
ProbeRank(op) == IF op = "list" THEN 1 ELSE IF op = "get" THEN 2 ELSE 3

\* the paths a request looks up in the store, in order
LookupPaths(r) ==
  IF req[r].kind = "direct" THEN <<req[r].path>>
  ELSE [k \in 1..Len(req[r].repos) |-> req[r].repos[k] \o req[r].path]

Probed(r, op) == {k \in 1..Len(req[r].log) : req[r].log[k].op = op}

\* C24: in the history of one GET request every Store.List comes before
\* every Store.Get and every Store.Get before every upstream request; the
\* Store.List calls cover every path of the lookup order, in order, before
\* the first Store.Get; and an upstream request is made only with mirrors
\* configured and after Store.List and Store.Get of every path of the lookup
\* order found nothing.
C24_ProbeOrder ==
  \A r \in Reqs :
    LET log   == req[r].log
        paths == LookupPaths(r)
    IN  /\ \A i, j \in 1..Len(log) :
             i < j => ProbeRank(log[i].op) <= ProbeRank(log[j].op)
        /\ (Probed(r, "get") # {} \/ Probed(r, "mirror") # {}) =>
             /\ Len(log) >= Len(paths)
             /\ \A k \in 1..Len(paths) :
                  log[k].op = "list" /\ log[k].path = paths[k]
        /\ Probed(r, "mirror") # {} =>
             /\ Len(proxies) > 0
             /\ Len(log) >= 2 * Len(paths)
             /\ \A k \in 1..Len(paths) :
                  /\ ~log[k].hit
                  /\ log[Len(paths) + k].op = "get"
                  /\ log[Len(paths) + k].path = paths[k]
                  /\ ~log[Len(paths) + k].hit
             /\ \A k \in Probed(r, "mirror") : log[k].path = req[r].artifact

C24_Witness ==
  /\ req[1].pc = "done"
  /\ req[1].kind = "aggregate"
  /\ Len(req[1].repos) = 2
  /\ Len(req[1].log) = 6
  /\ req[1].mirrors = <<1, 2>>
  /\ req[1].status = 200
  /\ req[2].pc = "done"
  /\ req[2].kind = "direct"
  /\ Len(req[2].log) = 4

(***************************************************************************)
(* SpecRace: the ticker's RunCleanup and a triggered RunCleanup, at any    *)
(* interleaving, on snapshot directories whose version groups may have     *)
(* equal newest mod times.                                                 *)
(***************************************************************************)
\* every file of the snapshot directory is absent or has the same mod time
RaceModTimes == {-1, 0}

InitRace ==
  /\ \E snap \in [SnapFiles -> RaceModTimes] : fs = CleanupStore(snap)
  /\ now = StartHour
  /\ keepDays \in {0, 1}
  /\ keepLatestOnly \in BOOLEAN
  /\ cl = [t \in Tasks |-> IdleTask(fs)]
  /\ enabled = FALSE
  /\ CtlIdle
  /\ proxies = <<>>
  /\ body = <<>>
  /\ denied = {}
  /\ GetIdle

NextRace ==
  \/ \E t \in Tasks : ClBegin(t)
  \/ \E t \in Tasks : ClWalk(t)
  \/ \E t \in Tasks : ClList(t)
  \/ \E t \in Tasks : ClDelete(t)
  \/ \E t \in Tasks : ClDirDone(t)
  \/ \E t \in Tasks : ClReturn(t)

SpecRace == InitRace /\ [][NextRace]_vars

\* the files a cleanupDir call decided to delete
Doomed(t) == {cl[t].plan[k] : k \in 1..Len(cl[t].plan)}

\* C25: two cleanupDir calls that list the same directory with the same
\* entries at the same time under the same policy decide on the same files,
\* also when version groups have equal newest mod times.
C25_SameSurvivors ==
  \A t, u \in Tasks :
    (/\ cl[t].pc = "delete" /\ cl[u].pc = "delete"
     /\ cl[t].dir = cl[u].dir
     /\ cl[t].entries = cl[u].entries
     /\ cl[t].at = cl[u].at)
      => Doomed(t) = Doomed(u)

\* the version groups cleanupDir would find in a directory of a store
GroupsIn(store, d) == Versions(List(store, d))

\* C28: with keepLatestOnly and keepDays = 0, a snapshot directory that held
\* a version group when a RunCleanup began holds one at every later moment,
\* also while the ticker's run and a triggered run overlap.
C28_NeverZeroGroups ==
  (keepLatestOnly /\ keepDays = 0) =>
    \A t \in Tasks :
      cl[t].pc # "idle" =>
        \A d \in SnapshotDirs(cl[t].before) :
          GroupsIn(cl[t].before, d) # {} => GroupsIn(fs, d) # {}

(***************************************************************************)
(* SpecFault: RunCleanup on a store where listing some directories and     *)
(* deleting some files fails.                                              *)
(***************************************************************************)
Sources == "app-1.0-20251220.120000-4-sources.jar"

DeniedChoices == SUBSET {LibDir, SnapDir \o <<Sources>>, SnapDir \o <<Jar1>>}

InitFault ==
  /\ \E snap \in [SnapFiles -> {0, HoursPerDay}] : fs = CleanupStore(snap)
  /\ now = StartHour
  /\ keepDays \in {0, 1}
  /\ keepLatestOnly \in BOOLEAN
  /\ cl = [t \in Tasks |-> IdleTask(fs)]
  /\ enabled = FALSE
  /\ CtlIdle
  /\ proxies = <<>>
  /\ body = <<>>
  /\ denied \in DeniedChoices
  /\ GetIdle

NextFault ==
  \/ ClBegin("manual")
  \/ ClWalk("manual")
  \/ ClList("manual")
  \/ ClDelete("manual")
  \/ ClDirDone("manual")
  \/ ClReturn("manual")

SpecFault == InitFault /\ [][NextFault]_vars

\* C26: when RunCleanup returns, cleanupDir was called on every snapshot
\* directory Walk found, also on those after a directory whose listing
\* failed; and when a cleanupDir call returns, Store.Delete was called on
\* every file it decided to delete, also on those after a file whose delete
\* failed, and each of them whose delete did not fail is gone.
C26_FailuresDoNotAbort ==
  \A t \in Tasks :
    /\ cl[t].pc = "done" =>
         {cl[t].listed[k] : k \in 1..Len(cl[t].listed)} = cl[t].found
    /\ cl[t].pc = "delete" => cl[t].tried \o cl[t].todo = cl[t].plan
    /\ cl[t].pc \in {"dirs", "done"} =>
         /\ cl[t].tried = cl[t].plan
         /\ \A k \in 1..Len(cl[t].plan) :
              cl[t].plan[k] \notin denied => fs[cl[t].plan[k]].kind = "none"

C26_Witness ==
  /\ cl["manual"].pc = "done"
  /\ denied = {LibDir, SnapDir \o <<Sources>>}
  /\ cl["manual"].listed = <<LibDir, SnapDir>>
  /\ cl["manual"].plan = <<SnapDir \o <<Sources>>, SnapDir \o <<Jar4>>>>
  /\ fs[SnapDir \o <<Sources>>].kind = "file"
  /\ fs[SnapDir \o <<Jar4>>].kind = "none"
  /\ fs[LibDir \o <<"README">>].kind = "file"

(***************************************************************************)
(* SpecStrip: one direct GET of a path under repository/, under public/,   *)
(* or under neither, that is missing or a directory, and its fill.         *)
(***************************************************************************)
PublicPath == <<"public">> \o ArtifactPath

ShortPath == <<"repository">> \o ArtifactPath

StripPaths == {DirectPath, PublicPath, ArtifactPath, ShortPath}

\* request paths that are directories in some stores
DirPaths == {AggregateBase, DevRepo}

StripStorePaths == GetPaths \cup UNION {Prefixes(p) : p \in StripPaths}

StripStore(dirs) ==
  [p \in StripStorePaths |-> IF p \in dirs \cup {<<>>} THEN DirNode ELSE NoNode]

InitStrip ==
  /\ fs \in {StripStore({}), StripStore({AggregateBase, DevRepo})}
  /\ now = StartHour
  /\ keepDays = 1
  /\ keepLatestOnly = FALSE
  /\ cl = [t \in Tasks |-> IdleTask(fs)]
  /\ enabled = FALSE
  /\ CtlIdle
  /\ \E n \in 1..MaxMirrors : proxies \in [1..n -> MirrorKinds]
  /\ \E n \in 0..MaxBody : body = SubSeq(ArtifactBytes, 1, n)
  /\ denied = {}
  /\ GetIdle

NextStrip ==
  \/ \E p \in StripPaths \cup DirPaths : GetBeginAt(1, "direct", p)
  \/ GetList(1)
  \/ GetFile(1)
  \/ GetServe(1)
  \/ GetProxy(1)
  \/ GetRead(1)
  \/ GetPipe(1)
  \/ GetWrite(1)
  \/ SaveMkdir(1)
  \/ SaveCreate(1)
  \/ SaveRead(1)
  \/ SaveWrite(1)

SpecStrip == InitStrip /\ [][NextStrip]_vars

\* a path without its first n segments
Drop(path, n) == SubSeq(path, n + 1, Len(path))

\* the direct request r has gone to the mirrors, asking for the path art and
\* caching under the request path only
AsksFor(r, art) ==
  /\ req[r].artifact = art
  /\ \A k \in Probed(r, "mirror") : req[r].log[k].path = art
  /\ save[r].pc # "none" => save[r].path = req[r].path
  /\ art # req[r].path => fs[art].kind = "none"

C29_DirectoryGetsIndex ==
  \A r \in Reqs :
    (req[r].kind = "direct" /\ req[r].pc = "done"
       /\ req[r].before[req[r].path].kind = "dir") =>
      /\ req[r].status = 200
      /\ req[r].ctype = "text/html"
      /\ req[r].source = "listing"
      /\ Probed(r, "get") = {}
      /\ Probed(r, "mirror") = {}

(***************************************************************************)
(* SpecPublic: two aggregate GET requests, one after the other, and an     *)
(* aggregate HEAD request at any time.                                     *)
(***************************************************************************)
InitPublic ==
  /\ fs \in {ReposStore, HostedStore}
  /\ now = StartHour
  /\ keepDays = 1
  /\ keepLatestOnly = FALSE
  /\ cl = [t \in Tasks |-> IdleTask(fs)]
  /\ enabled = FALSE
  /\ CtlIdle
  /\ \E n \in 0..MaxMirrors : proxies \in [1..n -> MirrorKinds]
  /\ \E n \in 0..MaxBody : body = SubSeq(ArtifactBytes, 1, n)
  /\ denied = {}
  /\ GetIdle

NextPublic ==
  \/ \E r \in Reqs : GetBegin(r, "aggregate")
  \/ \E r \in Reqs : GetList(r)
  \/ \E r \in Reqs : GetFile(r)
  \/ \E r \in Reqs : GetServe(r)
  \/ \E r \in Reqs : GetProxy(r)
  \/ \E r \in Reqs : GetRead(r)
  \/ \E r \in Reqs : GetPipe(r)
  \/ \E r \in Reqs : GetWrite(r)
  \/ \E r \in Reqs : SaveMkdir(r)
  \/ \E r \in Reqs : SaveCreate(r)
  \/ \E r \in Reqs : SaveRead(r)
  \/ \E r \in Reqs : SaveWrite(r)
  \/ HeadBegin("aggregate", ArtifactPath)
  \/ HeadStat
  \/ HeadProxy

SpecPublic == InitPublic /\ [][NextPublic]_vars

\* a hosted repository other than maven-public holds the artifact
HostedCopy ==
  \E repo \in {DevRepo, ReleasesRepo} : fs[repo \o ArtifactPath].kind # "none"

\* C30: repository/maven-public is never in the lookup order of an aggregate
\* request; so, unless another hosted repository holds the artifact, no
\* aggregate GET or HEAD is answered from the store, also after a fill has
\* written repository/maven-public/<artifact path>, and an answered request
\* has contacted the mirrors whenever mirrors are configured.
C30_PublicCacheNeverServed ==
  /\ \A r \in Reqs : \A k \in 1..Len(req[r].repos) : req[r].repos[k] # PublicRepo
  /\ ~HostedCopy =>
       /\ \A r \in Reqs :
            /\ req[r].source \notin {"local", "listing"}
            /\ (req[r].pc = "done" /\ Len(proxies) > 0) => req[r].mirrors # <<>>
       /\ head.source # "local"
       /\ (head.pc = "done" /\ Len(proxies) > 0) => head.asked # <<>>

C30_Witness ==
  /\ body # <<>>
  /\ req[2].pc = "done"
  /\ req[2].before[PublicRepo \o ArtifactPath] = FileNode(body, StartHour)
  /\ req[2].mirrors # <<>>
  /\ req[2].status = 200
  /\ req[2].out = body
  /\ head.pc = "done"
  /\ head.before = req[2].before
  /\ head.asked # <<>>
  /\ head.status = 200

(***************************************************************************)
(* SpecTick: the ticker loop with ticks that elapse while the goroutine is *)
(* away from its select, and triggered runs beside it.                     *)
(***************************************************************************)
\* the ticker fires while the loop is not receiving: the tick waits in
\* ticker.C, later ticks are dropped
TickElapses ==
  /\ loop.pc \in {"lock", "locked", "check", "cleanup"}
  /\ ~loop.pending
  /\ loop' = [loop EXCEPT !.pending = TRUE]
  /\ UNCHANGED <<fs, now, cl, cfgVars, putVars, getVars, Paused, Mu, CtxDone, admin, quiet, reply>>

NextTick ==
  \/ Start
  \/ TickElapses
  \/ LoopTick
  \/ LoopLock
  \/ LoopRead
  \/ LoopCheck
  \/ LoopCleanupDone
  \/ LoopExit
  \/ Stop
  \/ Trigger
  \/ TriggerDone
  \/ \E t \in Tasks : ClWalk(t) \/ ClList(t) \/ ClDelete(t) \/ ClDirDone(t) \/ ClReturn(t)

SpecTick == InitCtl /\ [][NextTick]_vars

\* C31: while a RunCleanup called by the ticker loop is in progress the loop
\* is inside that call, so it is not handling a tick, and a step that starts
\* a ticker-driven RunCleanup is taken only when none is in progress, also
\* when a tick has elapsed during the previous run.
C31_OneTickerRun ==
  /\ [](cl["ticker"].pc # "idle" => loop.pc = "cleanup")
  /\ [][(loop.pc = "check" /\ loop'.pc = "cleanup") => cl["ticker"].pc = "idle"]_vars
  /\ [][(loop.pc = "select" /\ loop'.pc = "lock") => cl["ticker"].pc = "idle"]_vars

C31_Witness ==
  /\ loop.late
  /\ loop.pc = "cleanup"
  /\ cl["ticker"].pc = "delete"
  /\ cl["manual"].pc = "delete"

====
